---- MODULE Spec2Model ----
(***************************************************************************)
(* Model of the Bypass-Subtitles extension: the consent-gated sync service *)
(* (DataSyncService), the IndexedDB segment cache (SubtitleStore) and the  *)
(* adaptive chunk scheduler of the content script.                         *)
(*                                                                         *)
(* Text is modelled as a sequence of one-character strings, so that        *)
(* String.prototype.includes, trim and substring are computed and not      *)
(* assumed.  Each component has its own specification; the variables of    *)
(* the other components stay at their initial value.                       *)
(***************************************************************************)
EXTENDS Integers, Sequences, FiniteSets, TLC

VARIABLES
    \* ---- isWhitelistedSite applied to one URL
    wlUrl,          \* the argument
    wlResult,       \* "pending" | "true" | "false"
    \* ---- DataSyncService instances over one chrome.storage
    localStore,     \* chrome.storage.local
    syncStore,      \* chrome.storage.sync (the popup's settings)
    currentSettings,\* content.js currentSettings of the active session
    svc,            \* the fields of each DataSyncService instance
    inits,          \* the init() run of each instance's constructor
    calls,          \* the syncSegment() call running on each instance
    nextUuid,       \* how many crypto.randomUUID() values were drawn
    \* ---- SubtitleStore over IndexedDB
    videos,         \* object store 'videos'
    segments,       \* object store 'segments'
    nextSegId,      \* the autoIncrement key generator of 'segments'
    videosQ,        \* transactions created on 'videos', oldest first
    segmentsQ,      \* transactions created on 'segments', oldest first
    tasks,          \* the SubtitleStore calls in progress
    supplied,       \* per (videoUrl, startTime): what saveSegment was given so far
    \* ---- the content script's capture session and its adaptive scheduler
    isEnabled,              \* content.js isEnabled
    capturing,              \* the capture graph exists (audioProcessor is set)
    audioChunks,            \* how many captured buffers wait in audioChunks
    sendInterval,           \* period of the interval sendInterval refers to; 0 for null
    currentChunkDuration,   \* the adaptive period
    lastProcessingTime,
    lagAccumulator,
    inFlight,               \* transcribe requests sent to the background, unanswered
    apiMode,                \* currentSettings.apiMode
    pageVideos,             \* the video elements in the document
    activeVideo,            \* content.js activeVideo; "none" for null
    subtitleOverlay,        \* the overlay element exists
    displayed,              \* the overlay shows a subtitle
    orphanIntervals,        \* armed intervals that sendInterval no longer refers to
    capturedVideo,          \* the video the capture graph records, "none" without a graph
    seekListeners,          \* the videos that carry the session's 'seeking' listener
    websocket,              \* "null", or the readyState of the socket websocket refers to
    enablePending,          \* enableSubtitles is awaiting connectWebSocket
    reconnectTimer,         \* a 3 s reconnect timeout is pending
    closing,                \* a socket closed by disableSubtitles has not fired onclose yet
    superseded,             \* connecting or open sockets that websocket no longer refers to
    socketOut,              \* chunks sent over the open socket, unanswered
    \* ---- the background page
    translationContext,     \* background.js translationContext
    resetsPending,          \* resetContext messages on their way to the background
    bgPending,              \* the transcribe request of each tab the background works on
    staleTabs,              \* the tabs whose request was at work when the tab's reset came
    attached,               \* the context sent along with each tab's last proxied request
    ledgerLog,              \* the pairs pushed since the context was last emptied
    \* ---- what the last answer led handleTranscription to do
    lastHandled,
    \* ---- onaudioprocess applied to one input sample
    sampleIn,               \* the sample, in units of 1/SampleSteps
    pcmOut,                 \* <<>>, or the Int16Array element it was stored as
    \* ---- the capture buffer, block by block
    blocks,                 \* audioChunks: the captured blocks, oldest first
    blocksCaptured,         \* how many blocks were captured so far
    chunksSent,             \* the merged chunks sendAudioChunks handed on, oldest first
    \* ---- the background page processing one transcribe message
    config,                 \* config.js: apiSecret and backendUrl
    groqApiKey,             \* currentSettings.groqApiKey of the content script
    bgRequest,              \* the transcribe message being processed, or the last one
    bgStage,                \* which fetch the processing awaits, "idle" if none
    bgFetches,              \* network calls made for bgRequest
    bgAnswer,               \* what sendResponse was last called with
    bgPrompt,               \* the system message of the last translation request
    \* ---- the overlay element by element
    overlayEl,              \* subtitleOverlay: 0 for null, else the number of the element
    overlaysMade,           \* overlay elements created so far
    containers,             \* the subtitle wrappers created so far, oldest first
    \* ---- the freshness guard applied to one chunk
    wallClock,              \* Date.now(): seconds since the epoch and the milliseconds beyond
    playbackTime,           \* activeVideo.currentTime of the chunk, in seconds
    dispatch                \* "none", or what sendToGroqAPI did with the chunk

hostVars == <<wlUrl, wlResult>>
syncVars == <<localStore, syncStore, currentSettings, svc, inits, calls, nextUuid>>
storeVars == <<videos, segments, nextSegId, videosQ, segmentsQ, tasks, supplied>>
schedVars == <<isEnabled, capturing, audioChunks, sendInterval, currentChunkDuration,
               lastProcessingTime, lagAccumulator, inFlight>>
pageVars == <<apiMode, pageVideos, activeVideo, subtitleOverlay, displayed, orphanIntervals,
              capturedVideo, seekListeners>>
wsVars == <<websocket, enablePending, reconnectTimer, closing, superseded, socketOut>>
bgVars == <<translationContext, resetsPending, bgPending, staleTabs, attached, ledgerLog>>
obsVars == <<lastHandled>>
sessionVars == <<schedVars, pageVars, wsVars, bgVars, obsVars>>
captureVars == <<sampleIn, pcmOut, blocks, blocksCaptured, chunksSent>>
procVars == <<config, groqApiKey, bgRequest, bgStage, bgFetches, bgAnswer, bgPrompt>>
overlayVars == <<overlayEl, overlaysMade, containers>>
freshVars == <<wallClock, playbackTime, dispatch>>
vars == <<hostVars, overlayVars, freshVars, captureVars, procVars, syncVars, storeVars,
          sessionVars>>

-----------------------------------------------------------------------------
(* Text helpers *)

Dot == <<".">>
L_www == <<"w", "w", "w">>
L_m == <<"m">>
L_not == <<"n", "o", "t">>
L_youtube == <<"y", "o", "u", "t", "u", "b", "e">>
L_bilibili == <<"b", "i", "l", "i", "b", "i", "l", "i">>
L_vimeo == <<"v", "i", "m", "e", "o">>
L_twitch == <<"t", "w", "i", "t", "c", "h">>
L_com == <<"c", "o", "m">>
L_tv == <<"t", "v">>
L_evil == <<"e", "v", "i", "l">>
L_io == <<"i", "o">>
L_attacker == <<"a", "t", "t", "a", "c", "k", "e", "r">>
L_localhost == <<"l", "o", "c", "a", "l", "h", "o", "s", "t">>

youtube_com == L_youtube \o Dot \o L_com
bilibili_com == L_bilibili \o Dot \o L_com
vimeo_com == L_vimeo \o Dot \o L_com
twitch_tv == L_twitch \o Dot \o L_tv

\* String.prototype.includes
Includes(h, s) ==
    \E i \in 0..(Len(h) - Len(s)) : SubSeq(h, i + 1, i + Len(s)) = s

\* String.prototype.endsWith
EndsWith(h, s) ==
    Len(h) >= Len(s) /\ SubSeq(h, Len(h) - Len(s) + 1, Len(h)) = s

-----------------------------------------------------------------------------
(* DataSyncService.isWhitelistedSite *)

WHITELISTED_SITES ==
    { youtube_com, L_www \o Dot \o youtube_com,
      bilibili_com, L_www \o Dot \o bilibili_com,
      vimeo_com, L_www \o Dot \o vimeo_com,
      twitch_tv, L_www \o Dot \o twitch_tv }

\* The four platforms the allow-list is about.
Platforms == { youtube_com, bilibili_com, vimeo_com, twitch_tv }

\* A URL as the URL parser sees it: ok = FALSE when `new URL(url)` throws.
MkUrl(scheme, host, ok) == [scheme |-> scheme, host |-> host, ok |-> ok]

\* new URL(url).hostname: the host component; only defined when the URL parses.
URL_hostname(url) == url.host

isWhitelistedSite(url) ==
    IF ~url.ok
    THEN FALSE      \* the parser throws, the catch returns false
    ELSE \E site \in WHITELISTED_SITES : Includes(URL_hostname(url), site)

\* Hostnames tried: every platform bare, under www., under another subdomain,
\* glued behind other letters, and as a prefix of a foreign domain; and hosts
\* that have nothing to do with any platform.
HostsOf(p) ==
    { p, L_www \o Dot \o p, L_m \o Dot \o p, L_not \o p,
      p \o Dot \o L_evil \o Dot \o L_io }

OtherHosts ==
    { <<>>, L_evil \o Dot \o L_com, L_attacker \o Dot \o L_com, L_localhost,
      L_youtube \o Dot \o <<"c", "o">>, L_com }

Hosts == UNION { HostsOf(p) : p \in Platforms } \cup OtherHosts

Schemes == { "https", "http", "file", "ftp" }

Urls ==
    { MkUrl(s, h, TRUE) : s \in Schemes, h \in Hosts }
        \cup { MkUrl("", h, FALSE) : h \in Hosts }

HostInit ==
    /\ wlUrl \in Urls
    /\ wlResult = "pending"

HostIdle ==
    /\ wlUrl = MkUrl("https", <<>>, TRUE)
    /\ wlResult = "pending"

\* One call isWhitelistedSite(wlUrl).
IsWhitelistedCall ==
    /\ wlResult = "pending"
    /\ wlResult' = IF isWhitelistedSite(wlUrl) THEN "true" ELSE "false"
    /\ UNCHANGED <<wlUrl, overlayVars, freshVars, captureVars, procVars, syncVars, storeVars, sessionVars>>

-----------------------------------------------------------------------------
(* DataSyncService over chrome.storage.local *)

NULL == "null"                      \* JS null / undefined of a string field
StoredId == "stored-device-id"      \* an identifier persisted by an earlier session
ConfigUrl == "https://project.supabase.co"
ConfigKey == "anon-key"

\* crypto.randomUUID(): the n-th value drawn; no two draws are equal.
randomUUID(n) == "uuid-" \o ToString(n)

\* JS undefined passed as a text argument.
NoText == <<"undefined">>

IsSpace(c) == c \in {" ", "\t", "\n"}

\* String.prototype.trim
RECURSIVE TrimLeft(_)
TrimLeft(t) ==
    IF t # <<>> /\ IsSpace(Head(t)) THEN TrimLeft(Tail(t)) ELSE t

RECURSIVE TrimRight(_)
TrimRight(t) ==
    IF t # <<>> /\ IsSpace(t[Len(t)]) THEN TrimRight(SubSeq(t, 1, Len(t) - 1)) ELSE t

Trim(t) == TrimRight(TrimLeft(t))

\* original?.trim() is truthy
OriginalPresent(original) ==
    original # NoText /\ Trim(original) # <<>>

\* String.prototype.substring(0, n)
Substring0(t, n) == SubSeq(t, 1, IF Len(t) < n THEN Len(t) ELSE n)

MaxSyncText == 500

Svc == { "tabA", "tabB" }           \* two contexts, each with its own instance

MaxUuids == 3       \* crypto.randomUUID() draws followed

EmptyResult ==
    [deviceId |-> NULL, dataSyncConsent |-> FALSE,
     supabaseUrl |-> NULL, supabaseAnonKey |-> NULL]

\* The contents chrome.storage.local may have when a session starts.  An absent
\* dataSyncConsent and a stored false are the same FALSE: init reads it through
\* `|| false`.
LocalStores ==
    [deviceId : {NULL, StoredId}, dataSyncConsent : BOOLEAN,
     supabaseUrl : {NULL, ConfigUrl}, supabaseAnonKey : {NULL, ConfigKey}]

\* DataSyncService constructor (before init has run)
NewService ==
    [deviceId |-> NULL, isEnabled |-> FALSE, supabaseUrl |-> NULL,
     supabaseAnonKey |-> NULL, isConfigured |-> FALSE, consentWrite |-> "none"]

IdleInit == [pc |-> "idle", result |-> EmptyResult, newId |-> NULL]

\* What a syncSegment decision read from its instance.
DecisionOf(service) ==
    [isEnabled |-> service.isEnabled, supabaseUrl |-> service.supabaseUrl,
     supabaseAnonKey |-> service.supabaseAnonKey, deviceId |-> service.deviceId]

NoDecision ==
    [isEnabled |-> FALSE, supabaseUrl |-> NULL, supabaseAnonKey |-> NULL,
     deviceId |-> NULL]

NoRequest ==
    [method |-> "none", endpoint |-> NULL, apikey |-> NULL, device_id |-> NULL,
     site |-> <<>>, original_text |-> <<>>, persisted |-> NULL]

IdleCall ==
    [pc |-> "idle", url |-> MkUrl("https", <<>>, TRUE),
     original |-> <<>>, at |-> NoDecision, setting |-> FALSE,
     sent |-> 0, req |-> NoRequest, result |-> FALSE, outcome |-> "none"]

\* URLs and texts handed to syncSegment
SyncUrls ==
    { MkUrl("https", youtube_com, TRUE),
      MkUrl("https", L_m \o Dot \o youtube_com, TRUE),
      MkUrl("https", L_not \o youtube_com, TRUE),
      MkUrl("https", L_evil \o Dot \o L_com, TRUE),
      MkUrl("", youtube_com, FALSE) }

SyncTexts == { NoText, <<>>, <<" ">>, <<" ", "H", "i", " ">> }

\* The instances constructed when the session starts: the constructor has called
\* init(), which awaits storage.get.
Constructed(live) ==
    /\ svc = [s \in Svc |-> NewService]
    /\ inits = [s \in Svc |->
                    IF s \in live THEN [IdleInit EXCEPT !.pc = "get"] ELSE IdleInit]

\* One tab, one instance.
SyncInit ==
    /\ localStore \in LocalStores
    /\ syncStore = [dataSyncConsent |-> FALSE]          \* DEFAULT_SETTINGS
    /\ currentSettings = [dataSyncConsent |-> FALSE]
    /\ Constructed({"tabA"})
    /\ calls = [s \in Svc |-> IdleCall]
    /\ nextUuid = 0

\* Two tabs opened together over the same chrome.storage.local.
RaceInit ==
    /\ localStore \in LocalStores
    /\ syncStore = [dataSyncConsent |-> FALSE]
    /\ currentSettings = [dataSyncConsent |-> FALSE]
    /\ Constructed(Svc)
    /\ calls = [s \in Svc |-> IdleCall]
    /\ nextUuid = 0

SyncIdle ==
    /\ localStore = EmptyResult
    /\ syncStore = [dataSyncConsent |-> FALSE]
    /\ currentSettings = [dataSyncConsent |-> FALSE]
    /\ Constructed({})
    /\ calls = [s \in Svc |-> IdleCall]
    /\ nextUuid = 0

\* init(), lines 36-39: the fields set from the storage result.
ConfiguredFrom(service, result) ==
    [service EXCEPT
        !.supabaseUrl = result.supabaseUrl,
        !.supabaseAnonKey = result.supabaseAnonKey,
        !.isConfigured = (result.supabaseUrl # NULL /\ result.supabaseAnonKey # NULL),
        !.isEnabled = result.dataSyncConsent]

\* The tab is reloaded: its script context is discarded with whatever it was
\* awaiting, and a new instance is constructed over the same storage.
Reload(s) ==
    /\ inits[s].pc # "idle"
    /\ svc' = [svc EXCEPT ![s] = NewService]
    /\ inits' = [inits EXCEPT ![s] = [IdleInit EXCEPT !.pc = "get"]]
    /\ calls' = [calls EXCEPT ![s] = IdleCall]
    /\ UNCHANGED <<localStore, syncStore, currentSettings, nextUuid>>
    /\ UNCHANGED <<hostVars, overlayVars, freshVars, captureVars, procVars, storeVars, sessionVars>>

\* Whether init() generates an identifier: `if (result.deviceId) ... else`.
MustGenerate(result) == result.deviceId = NULL

\* init(): storage.get resolves; the run continues to its next await or its end.
InitGetResolved(s) ==
    /\ inits[s].pc = "get"
    /\ LET result == localStore IN
       IF ~MustGenerate(result)
       THEN /\ svc' = [svc EXCEPT ![s] =
                          ConfiguredFrom([@ EXCEPT !.deviceId = result.deviceId], result)]
            /\ inits' = [inits EXCEPT ![s] = [IdleInit EXCEPT !.pc = "done"]]
            /\ UNCHANGED nextUuid
       ELSE /\ nextUuid < MaxUuids
            /\ nextUuid' = nextUuid + 1
            /\ svc' = [svc EXCEPT ![s].deviceId = randomUUID(nextUuid + 1)]
            /\ inits' = [inits EXCEPT ![s] =
                            [pc |-> "set", result |-> result,
                             newId |-> randomUUID(nextUuid + 1)]]
    /\ UNCHANGED <<localStore, syncStore, currentSettings, calls>>
    /\ UNCHANGED <<hostVars, overlayVars, freshVars, captureVars, procVars, storeVars, sessionVars>>

\* init(): storage.get rejects; the catch logs and the run ends.
InitGetRejected(s) ==
    /\ inits[s].pc = "get"
    /\ inits' = [inits EXCEPT ![s] = [IdleInit EXCEPT !.pc = "done"]]
    /\ UNCHANGED <<localStore, syncStore, currentSettings, svc, calls, nextUuid>>
    /\ UNCHANGED <<hostVars, overlayVars, freshVars, captureVars, procVars, storeVars, sessionVars>>

\* init(): storage.set({deviceId}) has written and resolves.
InitSetResolved(s) ==
    /\ inits[s].pc = "set"
    /\ localStore' = [localStore EXCEPT !.deviceId = inits[s].newId]
    /\ svc' = [svc EXCEPT ![s] = ConfiguredFrom(@, inits[s].result)]
    /\ inits' = [inits EXCEPT ![s] = [IdleInit EXCEPT !.pc = "done"]]
    /\ UNCHANGED <<syncStore, currentSettings, calls, nextUuid>>
    /\ UNCHANGED <<hostVars, overlayVars, freshVars, captureVars, procVars, storeVars, sessionVars>>

\* init(): storage.set rejects; the catch logs and the run ends.
InitSetRejected(s) ==
    /\ inits[s].pc = "set"
    /\ inits' = [inits EXCEPT ![s] = [IdleInit EXCEPT !.pc = "done"]]
    /\ UNCHANGED <<localStore, syncStore, currentSettings, svc, calls, nextUuid>>
    /\ UNCHANGED <<hostVars, overlayVars, freshVars, captureVars, procVars, storeVars, sessionVars>>

\* this.initPromise is the promise of the constructor's init() run.
InitPromiseResolved(s) == inits[s].pc = "done"

\* setConsent(enabled): the field is set at once, storage.set is awaited.
setConsent(s, enabled) ==
    /\ svc[s].consentWrite = "none"
    /\ svc' = [svc EXCEPT ![s].isEnabled = enabled,
                          ![s].consentWrite = IF enabled THEN "true" ELSE "false"]
    /\ UNCHANGED <<localStore, syncStore, currentSettings, inits, calls, nextUuid>>
    /\ UNCHANGED <<hostVars, overlayVars, freshVars, captureVars, procVars, storeVars, sessionVars>>

\* setConsent: storage.set({dataSyncConsent}) has written and resolves.
SetConsentStored(s) ==
    /\ svc[s].consentWrite # "none"
    /\ localStore' = [localStore EXCEPT !.dataSyncConsent = (svc[s].consentWrite = "true")]
    /\ svc' = [svc EXCEPT ![s].consentWrite = "none"]
    /\ UNCHANGED <<syncStore, currentSettings, inits, calls, nextUuid>>
    /\ UNCHANGED <<hostVars, overlayVars, freshVars, captureVars, procVars, storeVars, sessionVars>>

\* Popup saveSettings with the consent checkbox at `consent`: chrome.storage.sync
\* is written and updateSettings is sent to the tab, whose handleMessage
\* replaces currentSettings.
saveSettings(consent) ==
    /\ syncStore.dataSyncConsent # consent
    /\ syncStore' = [syncStore EXCEPT !.dataSyncConsent = consent]
    /\ currentSettings' = [currentSettings EXCEPT !.dataSyncConsent = consent]
    /\ UNCHANGED <<localStore, svc, inits, calls, nextUuid>>
    /\ UNCHANGED <<hostVars, overlayVars, freshVars, captureVars, procVars, storeVars, sessionVars>>

\* syncSegment(videoUrl, original, ...) is called; it awaits this.initPromise.
\* The arguments do not change while it waits; they are drawn when it resumes.
\* Calls do not share state with one another: one per instance is followed.
SyncCall(s) ==
    /\ calls[s].pc = "idle"
    /\ calls' = [calls EXCEPT ![s] = [IdleCall EXCEPT !.pc = "await"]]
    /\ UNCHANGED <<localStore, syncStore, currentSettings, svc, inits, nextUuid>>
    /\ UNCHANGED <<hostVars, overlayVars, freshVars, captureVars, procVars, storeVars, sessionVars>>

\* The three guards of syncSegment, lines 67-69, on the instance's fields.
SyncGuardsPass(service, url, original) ==
    /\ service.isConfigured /\ service.isEnabled
    /\ isWhitelistedSite(url)
    /\ OriginalPresent(original)

\* The fetch() of lines 72-89.  persisted is not sent: it records the identifier
\* chrome.storage.local holds at the send.
SyncRequest(service, url, original) ==
    [method |-> "POST",
     endpoint |-> service.supabaseUrl,
     apikey |-> service.supabaseAnonKey,
     device_id |-> service.deviceId,
     site |-> URL_hostname(url),
     original_text |-> Substring0(original, MaxSyncText),
     persisted |-> localStore.deviceId]

\* syncSegment resumes after `await this.initPromise` and runs to the fetch or
\* to an early return.  at and setting record what the decision read.
SyncDecide(c, url, original) ==
    /\ calls[c].pc = "await"
    /\ InitPromiseResolved(c)
    /\ LET service == svc[c]
           call == [calls[c] EXCEPT !.url = url, !.original = original,
                                    !.at = DecisionOf(service),
                                    !.setting = syncStore.dataSyncConsent]
       IN  IF SyncGuardsPass(service, url, original)
           THEN calls' = [calls EXCEPT ![c] =
                            [call EXCEPT !.pc = "fetch", !.sent = @ + 1,
                                         !.req = SyncRequest(service, url, original)]]
           ELSE calls' = [calls EXCEPT ![c] =
                            [call EXCEPT !.pc = "done", !.result = FALSE,
                                         !.outcome = "returned"]]
    /\ UNCHANGED <<localStore, syncStore, currentSettings, svc, inits, nextUuid>>
    /\ UNCHANGED <<hostVars, overlayVars, freshVars, captureVars, procVars, storeVars, sessionVars>>

\* How syncSegment ends when fetch() resolves: `return response.ok`.
SyncOnResponse(call, ok) ==
    [call EXCEPT !.pc = "done", !.result = ok,
                 !.outcome = IF ok THEN "response-ok" ELSE "response-not-ok"]

\* How syncSegment would end with the rejection of fetch() left uncaught.
SyncOnFetchErrorUncaught(call) ==
    [call EXCEPT !.pc = "done", !.result = FALSE, !.outcome = "rejected"]

\* How syncSegment ends when fetch() rejects: the catch returns false.
SyncOnFetchError(call) ==
    [call EXCEPT !.pc = "done", !.result = FALSE, !.outcome = "network-failure"]

\* fetch() resolves with response.ok = ok.
FetchResponded(c, ok) ==
    /\ calls[c].pc = "fetch"
    /\ calls' = [calls EXCEPT ![c] = SyncOnResponse(@, ok)]
    /\ UNCHANGED <<localStore, syncStore, currentSettings, svc, inits, nextUuid>>
    /\ UNCHANGED <<hostVars, overlayVars, freshVars, captureVars, procVars, storeVars, sessionVars>>

\* fetch() rejects (network failure).
FetchFailed(c) ==
    /\ calls[c].pc = "fetch"
    /\ calls' = [calls EXCEPT ![c] = SyncOnFetchError(@)]
    /\ UNCHANGED <<localStore, syncStore, currentSettings, svc, inits, nextUuid>>
    /\ UNCHANGED <<hostVars, overlayVars, freshVars, captureVars, procVars, storeVars, sessionVars>>

\* The caller has the result; the call is over.
SyncReturned(c) ==
    /\ calls[c].pc = "done"
    /\ calls' = [calls EXCEPT ![c] = IdleCall]
    /\ UNCHANGED <<localStore, syncStore, currentSettings, svc, inits, nextUuid>>
    /\ UNCHANGED <<hostVars, overlayVars, freshVars, captureVars, procVars, storeVars, sessionVars>>

SyncCallSteps(live) ==
    \/ \E s \in live : SyncCall(s)
    \/ \E s \in live, u \in SyncUrls, t \in SyncTexts : SyncDecide(s, u, t)
    \/ \E s \in live, ok \in BOOLEAN : FetchResponded(s, ok)
    \/ \E s \in live : FetchFailed(s)
    \/ \E s \in live : SyncReturned(s)

InitSteps(live) ==
    \/ \E s \in live : Reload(s)
    \/ \E s \in live : InitGetResolved(s)
    \/ \E s \in live : InitGetRejected(s)
    \/ \E s \in live : InitSetResolved(s)
    \/ \E s \in live : InitSetRejected(s)

-----------------------------------------------------------------------------
(* SubtitleStore over IndexedDB *)

SUPPORTED_LANGUAGES == { "en", "vi", "zh", "ja", "ko", "fr", "de", "es", "ru", "th" }

MaxSegIds == 4      \* autoIncrement keys followed

\* SubtitleStore calls in progress at the same time
TaskIds == { "t1", "t2" }

\* generateVideoId: the SHA-256 of the URL in hex; equal for equal URLs, taken
\* to differ for different ones.
generateVideoId(url) == <<"sha256", url>>

\* (videoUrl, startTime) pairs used
StoreKeys == { <<"u1", 10>>, <<"u1", 20>>, <<"u2", 10>> }
StoreUrls == { k[1] : k \in StoreKeys }
StartTimes == { k[2] : k \in StoreKeys }

\* obj[k] of a JS object: undefined (NULL) for a missing property.
Get(obj, k) == IF k \in DOMAIN obj THEN obj[k] ELSE NULL

\* obj[k] = v of a JS object: the property is created when missing.
Put(obj, k, v) == [x \in DOMAIN obj \cup {k} |-> IF x = k THEN v ELSE obj[x]]

\* JS truthiness of a text or null
Truthy(v) == v # NULL /\ v # ""

\* The `translations` objects handed to saveSegment
TranslationInputs ==
    { <<>>,
      "vi" :> "Xin chao",
      "vi" :> "Chao",
      "vi" :> "",
      "en" :> "Hello",
      "pt" :> "Ola" }

\* (original, sourceLang) handed to saveSegment
OriginalInputs == { <<"Hello", "en">>, <<"Hi", "auto">> }

\* (lang, translation) handed to addTranslation
AddInputs == { <<"vi", "Chao">>, <<"vi", "">>, <<"pt", "Ola">> }

IdleTask ==
    [op |-> "none", pc |-> "idle", url |-> "u1",
     videosDone |-> FALSE, segmentsDone |-> FALSE,     \* clearAll's two promises
     gotVideos |-> {}, gotSegments |-> {},             \* exportAll's two reads
     countVideos |-> 0, countSegments |-> 0]           \* getStats' two counts

NothingSupplied == [original |-> NULL, sourceLang |-> NULL,
                    slots |-> [l \in SUPPORTED_LANGUAGES |-> NULL]]

\* The database is open and empty, no call is in progress.
StoreInit ==
    /\ videos = {}
    /\ segments = {}
    /\ nextSegId = 1
    /\ videosQ = <<>>
    /\ segmentsQ = <<>>
    /\ tasks = [t \in TaskIds |-> IdleTask]
    /\ supplied = [k \in StoreKeys |-> NothingSupplied]

StoreIdle == StoreInit

FreeTask(t) ==
    /\ tasks[t].pc = "idle"
    /\ t = "t2" => tasks["t1"].pc # "idle"

\* The segments stored under (videoId, startTime): what the cursor over the
\* index 'videoId_startTime' ranges over.
SegmentsAt(videoId, startTime) ==
    { g \in segments : g.videoId = videoId /\ g.startTime = startTime }

\* The record the cursor is on first: the one with the lowest primary key.
FirstOf(S) == CHOOSE g \in S : \A h \in S : g.id <= h.id

\* saveSegment lines 219-222: one slot per supported language.
translationsObj(translations) ==
    [lang \in SUPPORTED_LANGUAGES |->
        IF Truthy(Get(translations, lang)) THEN Get(translations, lang) ELSE NULL]

\* The merge with every incoming slot written, empty ones too.
MergeSegmentOverwriting(existing, original, sourceLang, translations) ==
    [existing EXCEPT
        !.translations = [lang \in DOMAIN existing.translations |->
            Get(translationsObj(translations), lang)],
        !.original = original,
        !.sourceLang = sourceLang]

\* saveSegment lines 245-250: the existing record after the merge.
MergeSegment(existing, original, sourceLang, translations) ==
    LET obj == translationsObj(translations) IN
    [existing EXCEPT
        !.translations = [lang \in DOMAIN existing.translations |->
            IF lang \in DOMAIN obj /\ Truthy(obj[lang])
            THEN obj[lang] ELSE existing.translations[lang]],
        !.original = original,
        !.sourceLang = sourceLang]

\* saveSegment lines 224-232: a new record (the passive fields endTime,
\* confidence, model, userCorrected, correctedText, createdAt are left out).
NewSegment(id, videoId, startTime, original, sourceLang, translations) ==
    [id |-> id, videoId |-> videoId, startTime |-> startTime,
     original |-> original, sourceLang |-> sourceLang,
     translations |-> translationsObj(translations)]

\* saveSegment(videoUrl, ...) is called.  Its awaits of initPromise and of the
\* digest, and saveVideo's, read and write nothing shared; they are folded into
\* the call, which ends with saveVideo creating its readwrite transaction on
\* 'videos'.
SaveSegmentCall(t, url) ==
    /\ FreeTask(t)
    /\ tasks' = [tasks EXCEPT ![t] = [IdleTask EXCEPT !.op = "saveSegment",
                                                      !.pc = "videosTx", !.url = url]]
    /\ videosQ' = Append(videosQ, t)
    /\ UNCHANGED <<videos, segments, nextSegId, segmentsQ, supplied>>
    /\ UNCHANGED <<hostVars, overlayVars, freshVars, captureVars, procVars, syncVars, sessionVars>>

\* saveVideo's transaction runs: get, then put (the record replaces the one with
\* the same id; its timestamps are left out).  saveVideo resolves and saveSegment
\* goes on to create its readwrite transaction on 'segments'.
SaveVideoTxRun(t) ==
    /\ videosQ # <<>> /\ Head(videosQ) = t
    /\ tasks[t].op = "saveSegment" /\ tasks[t].pc = "videosTx"
    /\ LET id == generateVideoId(tasks[t].url) IN
       videos' = { v \in videos : v.id # id } \cup {[id |-> id, url |-> tasks[t].url]}
    /\ videosQ' = Tail(videosQ)
    /\ segmentsQ' = Append(segmentsQ, t)
    /\ tasks' = [tasks EXCEPT ![t].pc = "segmentsTx"]
    /\ UNCHANGED <<segments, nextSegId, supplied>>
    /\ UNCHANGED <<hostVars, overlayVars, freshVars, captureVars, procVars, syncVars, sessionVars>>

\* What saveSegment has been given for a key, in the order the saves are applied:
\* the last original and sourceLang, and per slot the last non-empty translation.
Supply(sup, original, sourceLang, translations) ==
    [original |-> original, sourceLang |-> sourceLang,
     slots |-> [l \in SUPPORTED_LANGUAGES |->
                  IF Truthy(Get(translations, l)) THEN translations[l] ELSE sup.slots[l]]]

\* The cursor finds a record for (videoId, startTime): lines 243-252.
CursorFinds(videoId, startTime) == SegmentsAt(videoId, startTime) # {}

\* saveSegment's transaction on 'segments' runs: the cursor over
\* (videoId, startTime) finds a record and updates it, or none and adds one.
SaveSegmentTxRun(t, startTime, original, sourceLang, translations) ==
    /\ segmentsQ # <<>> /\ Head(segmentsQ) = t
    /\ tasks[t].op = "saveSegment" /\ tasks[t].pc = "segmentsTx"
    /\ <<tasks[t].url, startTime>> \in StoreKeys
    /\ LET videoId == generateVideoId(tasks[t].url) IN
       IF CursorFinds(videoId, startTime)
       THEN LET existing == FirstOf(SegmentsAt(videoId, startTime)) IN
            /\ segments' = (segments \ {existing}) \cup
                    {MergeSegment(existing, original, sourceLang, translations)}
            /\ UNCHANGED nextSegId
       ELSE /\ nextSegId <= MaxSegIds
            /\ segments' = segments \cup
                    {NewSegment(nextSegId, videoId, startTime, original,
                                sourceLang, translations)}
            /\ nextSegId' = nextSegId + 1
    /\ supplied' = [supplied EXCEPT ![<<tasks[t].url, startTime>>] =
                        Supply(@, original, sourceLang, translations)]
    /\ segmentsQ' = Tail(segmentsQ)
    /\ tasks' = [tasks EXCEPT ![t] = IdleTask]
    /\ UNCHANGED <<videos, videosQ>>
    /\ UNCHANGED <<hostVars, overlayVars, freshVars, captureVars, procVars, syncVars, sessionVars>>

\* addTranslation(videoUrl, ...) is called; it creates its readwrite transaction
\* on 'segments' (the awaits before it are folded into the call).
AddTranslationCall(t, url) ==
    /\ FreeTask(t)
    /\ tasks' = [tasks EXCEPT ![t] = [IdleTask EXCEPT !.op = "addTranslation",
                                                      !.pc = "segmentsTx", !.url = url]]
    /\ segmentsQ' = Append(segmentsQ, t)
    /\ UNCHANGED <<videos, segments, nextSegId, videosQ, supplied>>
    /\ UNCHANGED <<hostVars, overlayVars, freshVars, captureVars, procVars, syncVars, sessionVars>>

\* addTranslation lines 313-315: the record with translations[lang] assigned.
WithTranslation(segment, lang, translation) ==
    [segment EXCEPT !.translations = Put(@, lang, translation)]

\* addTranslation's transaction runs: the record under the cursor gets
\* translations[lang] = translation; without a record nothing is written.
AddTranslationTxRun(t, startTime, lang, translation) ==
    /\ segmentsQ # <<>> /\ Head(segmentsQ) = t
    /\ tasks[t].op = "addTranslation" /\ tasks[t].pc = "segmentsTx"
    /\ LET videoId == generateVideoId(tasks[t].url) IN
       IF CursorFinds(videoId, startTime)
       THEN LET segment == FirstOf(SegmentsAt(videoId, startTime)) IN
            segments' = (segments \ {segment}) \cup
                            {WithTranslation(segment, lang, translation)}
       ELSE UNCHANGED segments
    /\ segmentsQ' = Tail(segmentsQ)
    /\ tasks' = [tasks EXCEPT ![t] = IdleTask]
    /\ UNCHANGED <<videos, nextSegId, videosQ, supplied>>
    /\ UNCHANGED <<hostVars, overlayVars, freshVars, captureVars, procVars, syncVars, sessionVars>>

\* clearAll() is called: after initPromise it creates, in one go, a readwrite
\* transaction on 'videos' and another on 'segments'.
ClearAllCall(t) ==
    /\ FreeTask(t)
    /\ tasks' = [tasks EXCEPT ![t] = [IdleTask EXCEPT !.op = "clearAll",
                                                      !.pc = "clearing"]]
    /\ videosQ' = Append(videosQ, t)
    /\ segmentsQ' = Append(segmentsQ, t)
    /\ UNCHANGED <<videos, segments, nextSegId, supplied>>
    /\ UNCHANGED <<hostVars, overlayVars, freshVars, captureVars, procVars, syncVars, sessionVars>>

\* Promise.all of clearAll: the call is over once both promises are resolved.
ClearAllSettled(task) ==
    IF task.videosDone /\ task.segmentsDone THEN IdleTask ELSE task

\* clearAll's transaction on 'videos' runs.
ClearVideosTxRun(t) ==
    /\ videosQ # <<>> /\ Head(videosQ) = t
    /\ tasks[t].op = "clearAll" /\ ~tasks[t].videosDone
    /\ videos' = {}
    /\ videosQ' = Tail(videosQ)
    /\ tasks' = [tasks EXCEPT ![t] = ClearAllSettled([@ EXCEPT !.videosDone = TRUE])]
    /\ UNCHANGED <<segments, nextSegId, segmentsQ, supplied>>
    /\ UNCHANGED <<hostVars, overlayVars, freshVars, captureVars, procVars, syncVars, sessionVars>>

\* clearAll's transaction on 'segments' runs (the key generator is not reset).
ClearSegmentsTxRun(t) ==
    /\ segmentsQ # <<>> /\ Head(segmentsQ) = t
    /\ tasks[t].op = "clearAll" /\ ~tasks[t].segmentsDone
    /\ segments' = {}
    /\ segmentsQ' = Tail(segmentsQ)
    /\ tasks' = [tasks EXCEPT ![t] = ClearAllSettled([@ EXCEPT !.segmentsDone = TRUE])]
    /\ UNCHANGED <<videos, nextSegId, videosQ, supplied>>
    /\ UNCHANGED <<hostVars, overlayVars, freshVars, captureVars, procVars, syncVars, sessionVars>>

\* exportAll() or getStats() is called (op says which): after initPromise it
\* creates a readonly transaction on 'videos'.
ReadAllCall(t, op) ==
    /\ FreeTask(t)
    /\ tasks' = [tasks EXCEPT ![t] = [IdleTask EXCEPT !.op = op, !.pc = "videosTx"]]
    /\ videosQ' = Append(videosQ, t)
    /\ UNCHANGED <<videos, segments, nextSegId, segmentsQ, supplied>>
    /\ UNCHANGED <<hostVars, overlayVars, freshVars, captureVars, procVars, syncVars, sessionVars>>

\* The read of 'videos' runs: getAll() for exportAll, count() for getStats.  The
\* call goes on to create its readonly transaction on 'segments'.
ReadVideosTxRun(t) ==
    /\ videosQ # <<>> /\ Head(videosQ) = t
    /\ tasks[t].op \in {"exportAll", "getStats"} /\ tasks[t].pc = "videosTx"
    /\ tasks' = [tasks EXCEPT ![t] =
            IF @.op = "exportAll"
            THEN [@ EXCEPT !.gotVideos = videos, !.pc = "segmentsTx"]
            ELSE [@ EXCEPT !.countVideos = Cardinality(videos), !.pc = "segmentsTx"]]
    /\ videosQ' = Tail(videosQ)
    /\ segmentsQ' = Append(segmentsQ, t)
    /\ UNCHANGED <<videos, segments, nextSegId, supplied>>
    /\ UNCHANGED <<hostVars, overlayVars, freshVars, captureVars, procVars, syncVars, sessionVars>>

\* The read of 'segments' runs; the call has its result.
ReadSegmentsTxRun(t) ==
    /\ segmentsQ # <<>> /\ Head(segmentsQ) = t
    /\ tasks[t].op \in {"exportAll", "getStats"} /\ tasks[t].pc = "segmentsTx"
    /\ tasks' = [tasks EXCEPT ![t] =
            IF @.op = "exportAll"
            THEN [@ EXCEPT !.gotSegments = segments, !.pc = "done"]
            ELSE [@ EXCEPT !.countSegments = Cardinality(segments), !.pc = "done"]]
    /\ segmentsQ' = Tail(segmentsQ)
    /\ UNCHANGED <<videos, segments, nextSegId, videosQ, supplied>>
    /\ UNCHANGED <<hostVars, overlayVars, freshVars, captureVars, procVars, syncVars, sessionVars>>

\* The caller has the export or the statistics; the call is over.
ReadAllReturned(t) ==
    /\ tasks[t].op \in {"exportAll", "getStats"} /\ tasks[t].pc = "done"
    /\ tasks' = [tasks EXCEPT ![t] = IdleTask]
    /\ UNCHANGED <<videos, segments, nextSegId, videosQ, segmentsQ, supplied>>
    /\ UNCHANGED <<hostVars, overlayVars, freshVars, captureVars, procVars, syncVars, sessionVars>>

-----------------------------------------------------------------------------
(* The capture session of the content script (Groq mode) and its adaptive  *)
(* chunk scheduler                                                         *)

AUDIO_CHUNK_DURATION_MS == 3000
MAX_LAG_MS == 5000

MaxChunks == 2      \* captured buffers waiting at most
MaxInFlight == 2    \* unanswered transcribe requests at most

\* Date.now() - startTime of a finished request, in ms
ProcessingTimes == { 400, 1500, 2800, 5000 }

\* Date.now() in ms and activeVideo.currentTime in s when a chunk is sent
Nows == { 20000 }
VideoTimes == { 10, 15, 20 }

Min(a, b) == IF a < b THEN a ELSE b
Max(a, b) == IF a > b THEN a ELSE b

\* The growth test with the threshold itself counted as too slow.
TooSlowOrEqual(period, processingTime) == processingTime * 10 >= period * 8

\* adaptChunkSize grows the period: processingTime > currentChunkDuration * 0.8
\* (the product is a whole number for every period the code can hold).
TooSlow(period, processingTime) == processingTime * 10 > period * 8

\* adaptChunkSize shrinks the period: processingTime < currentChunkDuration * 0.3
TooFast(period, processingTime) == processingTime * 10 < period * 3

\* The period with the step applied whatever the period is.
adaptChunkSizeUnchecked(period, processingTime) ==
    IF TooSlow(period, processingTime) THEN period + 500
    ELSE IF TooFast(period, processingTime) THEN period - 500
    ELSE period

\* adaptChunkSize: the value of currentChunkDuration it leaves.
adaptChunkSize(period, processingTime) ==
    IF TooSlow(period, processingTime) /\ period < 6000
    THEN Min(6000, period + 500)
    ELSE IF TooFast(period, processingTime) /\ period > 2000
    THEN Max(2000, period - 500)
    ELSE period

\* sendToGroqAPI line 510
chunkAge(now, videoTime) == now - (videoTime * 1000)

\* The video elements a page can hold, in document order
Videos == { "v1", "v2" }

\* videos[0] of document.querySelectorAll('video')
FirstVideo(onPage) == IF "v1" \in onPage THEN "v1" ELSE "v2"

\* The apiMode values followed: the background page, or the local backend over
\* a WebSocket.
Modes == { "groq", "local" }

MaxOrphans == 1     \* armed intervals without a handle, at most
MaxSuperseded == 1  \* live sockets without a handle that are counted
MaxResets == 1      \* resetContext messages on their way, at most

\* What the background page (or the local backend) answers.
ErrorResult == [error |-> TRUE, original |-> "", translated |-> ""]
Results ==
    { ErrorResult,
      [error |-> FALSE, original |-> "Hello", translated |-> "Xin chao"],
      [error |-> FALSE, original |-> "", translated |-> ""] }

NothingHandled == [saved |-> FALSE, synced |-> FALSE]

\* The tabs whose content scripts talk to the one background page
Tabs == { "tabA", "tabB" }

\* The background page has just been started.
BackgroundLoaded ==
    /\ translationContext = <<>>
    /\ resetsPending = 0
    /\ bgPending = [t \in Tabs |-> "none"]
    /\ staleTabs = {}
    /\ attached = [t \in Tabs |-> <<>>]
    /\ ledgerLog = <<>>

\* init(): detectVideos selects the video of a page that has exactly one.
detectVideos(onPage, active) ==
    IF Cardinality(onPage) = 1 THEN FirstVideo(onPage) ELSE active

\* The content script on a page with the videos onPage, of which active is
\* selected, and the settings' apiMode: nothing enabled, the period at its
\* default.
SessionAt(onPage, active, mode) ==
    /\ isEnabled = FALSE
    /\ capturing = FALSE
    /\ audioChunks = 0
    /\ sendInterval = 0
    /\ currentChunkDuration = AUDIO_CHUNK_DURATION_MS
    /\ lastProcessingTime = 0
    /\ lagAccumulator = 0
    /\ inFlight = 0
    /\ apiMode = mode
    /\ pageVideos = onPage
    /\ activeVideo = active
    /\ subtitleOverlay = FALSE
    /\ displayed = FALSE
    /\ orphanIntervals = 0
    /\ capturedVideo = "none"
    /\ seekListeners = {}
    /\ websocket = "null"
    /\ enablePending = FALSE
    /\ reconnectTimer = FALSE
    /\ closing = FALSE
    /\ superseded = 0
    /\ socketOut = 0
    /\ BackgroundLoaded
    /\ lastHandled = NothingHandled

\* The content script has just been loaded by init().
SessionLoaded(onPage, mode) == SessionAt(onPage, detectVideos(onPage, "none"), mode)

\* A page with two videos of which the first was selected (selectVideo), the
\* settings in Groq mode.
SchedInit == SessionAt({"v1", "v2"}, "v1", "groq")

SchedIdle == SchedInit

\* startAudioCapture lines 417-441: it returns without a capture graph when
\* there is no active video, no captureStream or no audio track.
CaptureStarts(video, captureOk) == video # "none" /\ captureOk

\* startAudioCapture: the capture graph, the interval handle and the intervals
\* left armed without a handle (setInterval over a handle that was not cleared).
CapturingAfterStart(was, video, captureOk) ==
    IF CaptureStarts(video, captureOk) THEN TRUE ELSE was

IntervalAfterStart(was, video, captureOk) ==
    IF CaptureStarts(video, captureOk) THEN AUDIO_CHUNK_DURATION_MS ELSE was

OrphansAfterStart(was, interval, video, captureOk) ==
    IF CaptureStarts(video, captureOk) /\ interval # 0 THEN was + 1 ELSE was

\* startAudioCapture line 443: the graph's source is the stream captured from
\* the active video.
CapturedAfterStart(was, video, captureOk) ==
    IF CaptureStarts(video, captureOk) THEN video ELSE was

\* setupVideoEventListeners: the active video gets a 'seeking' listener; the
\* listeners of other videos stay.
setupVideoEventListeners(listeners, video) ==
    IF video = "none" THEN listeners ELSE listeners \cup {video}

\* connectWebSocket line 384: websocket = new WebSocket(...) over a handle
\* that refers to a connecting or open socket leaves that socket alive
\* with nothing referring to it.
SupersededAfterConnect(count, socket) ==
    IF socket \in {"connecting", "open"} THEN count + 1 ELSE count

\* enableSubtitles lines 302-309: the video the session is enabled on.
ResolveVideo(active, onPage) ==
    IF active # "none" THEN active
    ELSE IF onPage = {} THEN "none"
    ELSE FirstVideo(onPage)

\* createSubtitleOverlay
createSubtitleOverlay(overlay) == TRUE

\* handleMessage 'enable': the settings of the message (mode; "unchanged" when
\* the message has none) replace currentSettings, then enableSubtitles runs:
\* without a video it gives up; otherwise it sets isEnabled, in local mode
\* starts connecting and waits, in the other modes starts the capture and
\* creates the overlay.
enableSubtitles(mode, captureOk) ==
    LET newMode == IF mode = "unchanged" THEN apiMode ELSE mode
        video == ResolveVideo(activeVideo, pageVideos)
    IN
    /\ apiMode' = newMode
    /\ IF video = "none"
       THEN UNCHANGED <<schedVars, pageVideos, activeVideo, subtitleOverlay, displayed,
                        orphanIntervals, capturedVideo, seekListeners, wsVars>>
       ELSE /\ activeVideo' = video
            /\ isEnabled' = TRUE
            /\ seekListeners' = setupVideoEventListeners(seekListeners, video)
            /\ IF newMode = "local"
               THEN /\ websocket' = "connecting"
                    /\ enablePending' = TRUE
                    /\ superseded' = SupersededAfterConnect(superseded, websocket)
                    /\ superseded' <= MaxSuperseded
                    /\ UNCHANGED <<capturing, sendInterval, orphanIntervals, subtitleOverlay,
                                   capturedVideo>>
               ELSE /\ capturing' = CapturingAfterStart(capturing, video, captureOk)
                    /\ sendInterval' = IntervalAfterStart(sendInterval, video, captureOk)
                    /\ orphanIntervals' =
                            OrphansAfterStart(orphanIntervals, sendInterval, video, captureOk)
                    /\ orphanIntervals' <= MaxOrphans
                    /\ capturedVideo' = CapturedAfterStart(capturedVideo, video, captureOk)
                    /\ subtitleOverlay' = createSubtitleOverlay(subtitleOverlay)
                    /\ UNCHANGED <<websocket, enablePending, superseded>>
            /\ UNCHANGED <<audioChunks, currentChunkDuration, lastProcessingTime,
                           lagAccumulator, inFlight, pageVideos, displayed,
                           reconnectTimer, closing, socketOut>>
    /\ UNCHANGED <<bgVars, obsVars>>
    /\ UNCHANGED <<hostVars, overlayVars, freshVars, captureVars, procVars, syncVars, storeVars>>

\* disableSubtitles: stopAudioCapture, the socket closed and forgotten, the
\* interval cleared, the overlay removed.
disableSubtitles ==
    /\ isEnabled' = FALSE
    /\ capturing' = FALSE
    /\ audioChunks' = 0
    /\ websocket' = "null"
    /\ closing' = (closing \/ websocket \in {"connecting", "open"})
    /\ sendInterval' = 0
    /\ subtitleOverlay' = FALSE
    /\ displayed' = FALSE
    /\ socketOut' = 0
    /\ capturedVideo' = "none"
    /\ UNCHANGED <<currentChunkDuration, lastProcessingTime, lagAccumulator, inFlight,
                   apiMode, pageVideos, activeVideo, orphanIntervals, seekListeners,
                   enablePending, reconnectTimer, superseded>>
    /\ UNCHANGED <<bgVars, obsVars>>
    /\ UNCHANGED <<hostVars, overlayVars, freshVars, captureVars, procVars, syncVars, storeVars>>

\* websocket.onopen: connectWebSocket resolves; an enableSubtitles waiting for it
\* goes on to start the capture and create the overlay.
SocketOpened(captureOk) ==
    /\ websocket = "connecting"
    /\ websocket' = "open"
    /\ enablePending' = FALSE
    /\ IF enablePending
       THEN /\ capturing' = CapturingAfterStart(capturing, activeVideo, captureOk)
            /\ sendInterval' = IntervalAfterStart(sendInterval, activeVideo, captureOk)
            /\ orphanIntervals' =
                    OrphansAfterStart(orphanIntervals, sendInterval, activeVideo, captureOk)
            /\ orphanIntervals' <= MaxOrphans
            /\ capturedVideo' = CapturedAfterStart(capturedVideo, activeVideo, captureOk)
            /\ subtitleOverlay' = createSubtitleOverlay(subtitleOverlay)
       ELSE UNCHANGED <<capturing, sendInterval, orphanIntervals, subtitleOverlay,
                        capturedVideo>>
    /\ UNCHANGED <<isEnabled, audioChunks, currentChunkDuration, lastProcessingTime,
                   lagAccumulator, inFlight, apiMode, pageVideos, activeVideo, displayed,
                   seekListeners, reconnectTimer, closing, superseded, socketOut>>
    /\ UNCHANGED <<bgVars, obsVars>>
    /\ UNCHANGED <<hostVars, overlayVars, freshVars, captureVars, procVars, syncVars, storeVars>>

\* An onclose that schedules nothing.
ReconnectNotScheduled(timer) == timer

\* websocket.onclose lines 402-409: while enabled a reconnect is scheduled.
ReconnectScheduled(timer) == timer \/ isEnabled

\* The connection attempt fails: onerror rejects the promise (an enableSubtitles
\* waiting for it ends there), then onclose runs.
SocketFailed ==
    /\ websocket = "connecting"
    /\ websocket' = "closed"
    /\ enablePending' = FALSE
    /\ reconnectTimer' = ReconnectScheduled(reconnectTimer)
    /\ UNCHANGED <<schedVars, pageVars, closing, superseded, socketOut>>
    /\ UNCHANGED <<bgVars, obsVars>>
    /\ UNCHANGED <<hostVars, overlayVars, freshVars, captureVars, procVars, syncVars, storeVars>>

\* The open connection is lost: onclose runs.
SocketClosed ==
    /\ websocket = "open"
    /\ websocket' = "closed"
    /\ socketOut' = 0
    /\ reconnectTimer' = ReconnectScheduled(reconnectTimer)
    /\ UNCHANGED <<schedVars, pageVars, enablePending, closing, superseded>>
    /\ UNCHANGED <<bgVars, obsVars>>
    /\ UNCHANGED <<hostVars, overlayVars, freshVars, captureVars, procVars, syncVars, storeVars>>

\* The events of a socket that disableSubtitles closed: onerror for one that was
\* still connecting (its promise rejects), then onclose.
ClosedSocketEvents ==
    /\ closing
    /\ closing' = FALSE
    /\ enablePending' = IF websocket = "connecting" THEN enablePending ELSE FALSE
    /\ reconnectTimer' = ReconnectScheduled(reconnectTimer)
    /\ UNCHANGED <<schedVars, pageVars, websocket, superseded, socketOut>>
    /\ UNCHANGED <<bgVars, obsVars>>
    /\ UNCHANGED <<hostVars, overlayVars, freshVars, captureVars, procVars, syncVars, storeVars>>

\* A socket that websocket no longer refers to is closed by the backend or
\* fails: its onclose runs like that of any other.
SupersededSocketClosed ==
    /\ superseded > 0
    /\ superseded' = superseded - 1
    /\ reconnectTimer' = ReconnectScheduled(reconnectTimer)
    /\ UNCHANGED <<schedVars, pageVars, websocket, enablePending, closing, socketOut>>
    /\ UNCHANGED <<bgVars, obsVars>>
    /\ UNCHANGED <<hostVars, overlayVars, freshVars, captureVars, procVars, syncVars, storeVars>>

\* The reconnect timeout fires: while enabled connectWebSocket runs again.
ReconnectFired ==
    /\ reconnectTimer
    /\ reconnectTimer' = FALSE
    /\ websocket' = IF isEnabled THEN "connecting" ELSE websocket
    /\ superseded' = IF isEnabled
                     THEN Min(MaxSuperseded, SupersededAfterConnect(superseded, websocket))
                     ELSE superseded
    /\ UNCHANGED <<schedVars, pageVars, enablePending, closing, socketOut>>
    /\ UNCHANGED <<bgVars, obsVars>>
    /\ UNCHANGED <<hostVars, overlayVars, freshVars, captureVars, procVars, syncVars, storeVars>>

\* audioProcessor.onaudioprocess: a captured buffer is queued while enabled.
onaudioprocess ==
    /\ capturing /\ isEnabled
    /\ audioChunks < MaxChunks
    /\ audioChunks' = audioChunks + 1
    /\ UNCHANGED <<isEnabled, capturing, sendInterval, currentChunkDuration,
                   lastProcessingTime, lagAccumulator, inFlight>>
    /\ UNCHANGED <<pageVars, wsVars, bgVars, obsVars>>
    /\ UNCHANGED <<hostVars, overlayVars, freshVars, captureVars, procVars, syncVars, storeVars>>

\* The condition under which the interval callback calls sendAudioChunks.
TickSends == audioChunks > 0 /\ (apiMode = "groq" \/ websocket = "open")

\* An armed interval fires and its callback calls sendAudioChunks, which drains
\* the buffer.  In groq mode sendToGroqAPI skips a chunk that is too old and
\* otherwise sends the transcribe request; in the other modes
\* sendToLocalBackend sends the chunk over the open socket.
IntervalTick(now, videoTime) ==
    /\ sendInterval # 0 \/ orphanIntervals > 0
    /\ TickSends
    /\ activeVideo # "none"
    /\ audioChunks' = 0
    /\ IF apiMode = "groq"
       THEN /\ IF chunkAge(now, videoTime) > MAX_LAG_MS
               THEN /\ lagAccumulator' = 0
                    /\ UNCHANGED inFlight
               ELSE /\ inFlight < MaxInFlight
                    /\ inFlight' = inFlight + 1
                    /\ UNCHANGED lagAccumulator
            /\ UNCHANGED socketOut
       ELSE /\ socketOut < MaxInFlight
            /\ socketOut' = socketOut + 1
            /\ UNCHANGED <<lagAccumulator, inFlight>>
    /\ UNCHANGED <<isEnabled, capturing, sendInterval, currentChunkDuration,
                   lastProcessingTime>>
    /\ UNCHANGED <<pageVars, websocket, enablePending, reconnectTimer, closing, superseded>>
    /\ UNCHANGED <<bgVars, obsVars>>
    /\ UNCHANGED <<hostVars, overlayVars, freshVars, captureVars, procVars, syncVars, storeVars>>

MAX_CONTEXT_SIZE == 3

\* A push that drops the new pair when the context is full.
PushContextKeepingOldest(context, entry) ==
    IF Len(context) >= MAX_CONTEXT_SIZE THEN context ELSE Append(context, entry)

\* background.js lines 107-113 and 176-182: the pair is pushed and the oldest
\* entry shifted out once there are more than MAX_CONTEXT_SIZE.
PushContext(context, entry) ==
    LET pushed == Append(context, entry) IN
    IF Len(pushed) > MAX_CONTEXT_SIZE THEN Tail(pushed) ELSE pushed

\* An update made for every result that is not an error.
UpdatesOnSuccess(result) == ~result.error

\* background.js lines 106 and 175: the update is made only for a result with
\* both texts.
UpdatesContext(result) ==
    ~result.error /\ result.original # "" /\ result.translated # ""

\* The context after a process call that produced result.
ContextAfter(context, result) ==
    IF UpdatesContext(result)
    THEN PushContext(context, [original |-> result.original,
                               translated |-> result.translated])
    ELSE context

\* background.js lines 57-60: a resetContext message is handled.
ResetContextHandled ==
    /\ resetsPending > 0
    /\ resetsPending' = resetsPending - 1
    /\ translationContext' = <<>>
    /\ ledgerLog' = <<>>
    /\ UNCHANGED <<schedVars, pageVars, wsVars, bgPending, staleTabs, attached, obsVars>>
    /\ UNCHANGED <<hostVars, overlayVars, freshVars, captureVars, procVars, syncVars, storeVars>>

\* handleTranscription(data): whether data has text to show.
HasText(data) == ~data.error /\ (data.original # "" \/ data.translated # "")

\* handleTranscription(data): a result with text is saved to the segment cache
\* when there is an active video, and synced once the save has resolved
\* (saveOk).
Handled(data, saveOk) ==
    [saved |-> HasText(data) /\ activeVideo # "none",
     synced |-> HasText(data) /\ activeVideo # "none" /\ saveOk]

\* A display that waits for the save to resolve.
displaySubtitleOnceSaved(data) == HasText(data) /\ subtitleOverlay /\ lastHandled'.synced

\* displaySubtitle: the text is shown when the overlay exists.
displaySubtitle(data) == HasText(data) /\ subtitleOverlay

\* A restart that clears the interval and arms none.
clearSendInterval(period) == 0

\* restartSendInterval: the interval is cleared and armed with the period given.
restartSendInterval(period) == period

\* The background page finishes a transcribe request of the session and its
\* answer (an error when the handler threw) arrives after processingTime ms:
\* sendToGroqAPI lines 528-531 record the time and adapt the period, a changed
\* period re-arms the interval; an answer without error goes to
\* handleTranscription.
TranscribeAnswered(result, processingTime, saveOk) ==
    /\ inFlight > 0
    /\ inFlight' = inFlight - 1
    /\ translationContext' = ContextAfter(translationContext, result)
    /\ lastProcessingTime' = processingTime
    /\ currentChunkDuration' = adaptChunkSize(currentChunkDuration, processingTime)
    /\ sendInterval' = IF currentChunkDuration' # currentChunkDuration
                       THEN restartSendInterval(currentChunkDuration')
                       ELSE sendInterval
    /\ lastHandled' = Handled(result, saveOk)
    /\ displayed' = (displayed \/ displaySubtitle(result))
    /\ UNCHANGED <<isEnabled, capturing, audioChunks, lagAccumulator>>
    /\ UNCHANGED <<apiMode, pageVideos, activeVideo, subtitleOverlay, orphanIntervals,
                   capturedVideo, seekListeners>>
    /\ UNCHANGED <<wsVars, resetsPending, bgPending, staleTabs, attached, ledgerLog>>
    /\ UNCHANGED <<hostVars, overlayVars, freshVars, captureVars, procVars, syncVars, storeVars>>

\* chrome.runtime.sendMessage rejects: the catch of sendToGroqAPI only logs.
TranscribeRejected ==
    /\ inFlight > 0
    /\ inFlight' = inFlight - 1
    /\ UNCHANGED <<isEnabled, capturing, audioChunks, sendInterval,
                   currentChunkDuration, lastProcessingTime, lagAccumulator>>
    /\ UNCHANGED <<pageVars, wsVars, bgVars, obsVars>>
    /\ UNCHANGED <<hostVars, overlayVars, freshVars, captureVars, procVars, syncVars, storeVars>>

\* websocket.onmessage: the local backend answers a chunk and its data goes to
\* handleTranscription.
SocketMessage(data, saveOk) ==
    /\ websocket = "open"
    /\ socketOut > 0
    /\ socketOut' = socketOut - 1
    /\ lastHandled' = Handled(data, saveOk)
    /\ displayed' = (displayed \/ displaySubtitle(data))
    /\ UNCHANGED <<schedVars, apiMode, pageVideos, activeVideo, subtitleOverlay,
                   orphanIntervals, capturedVideo, seekListeners>>
    /\ UNCHANGED <<websocket, enablePending, reconnectTimer, closing, superseded, bgVars>>
    /\ UNCHANGED <<hostVars, overlayVars, freshVars, captureVars, procVars, syncVars, storeVars>>

\* A reset that leaves the period as it is.
resetTranscriptionStateKeepingPeriod == <<0, 0, currentChunkDuration>>

\* resetTranscriptionState: what it leaves in audioChunks, lagAccumulator and
\* currentChunkDuration.
resetTranscriptionState == <<0, 0, AUDIO_CHUNK_DURATION_MS>>

\* observeDOM lines 238-248: the src of a video in the document changed.  Only
\* for the active video of an enabled session resetTranscriptionState runs: it
\* also empties the overlay and sends resetContext to the background.
VideoSourceChanged(video) ==
    /\ video \in pageVideos
    /\ IF video = activeVideo /\ isEnabled
       THEN /\ resetsPending < MaxResets
            /\ audioChunks' = resetTranscriptionState[1]
            /\ lagAccumulator' = resetTranscriptionState[2]
            /\ currentChunkDuration' = resetTranscriptionState[3]
            /\ displayed' = FALSE
            /\ resetsPending' = resetsPending + 1
       ELSE UNCHANGED <<audioChunks, lagAccumulator, currentChunkDuration, displayed,
                        resetsPending>>
    /\ UNCHANGED <<isEnabled, capturing, sendInterval, lastProcessingTime, inFlight>>
    /\ UNCHANGED <<apiMode, pageVideos, activeVideo, subtitleOverlay, orphanIntervals,
                   capturedVideo, seekListeners>>
    /\ UNCHANGED <<wsVars, translationContext, bgPending, staleTabs, attached, ledgerLog, obsVars>>
    /\ UNCHANGED <<hostVars, overlayVars, freshVars, captureVars, procVars, syncVars, storeVars>>

\* handleNewVideoDetected for a video added to a page that had none, while
\* enabled: switchToVideo stops the capture, resets, makes the video the active
\* one and starts the capture again.
switchToVideo(video, captureOk) ==
    /\ video \notin pageVideos
    /\ isEnabled /\ pageVideos = {}
    /\ resetsPending < MaxResets
    /\ pageVideos' = {video}
    /\ audioChunks' = resetTranscriptionState[1]
    /\ lagAccumulator' = resetTranscriptionState[2]
    /\ currentChunkDuration' = resetTranscriptionState[3]
    /\ displayed' = FALSE
    /\ resetsPending' = resetsPending + 1
    /\ activeVideo' = video
    /\ capturing' = CapturingAfterStart(FALSE, video, captureOk)
    /\ sendInterval' = IntervalAfterStart(sendInterval, video, captureOk)
    /\ orphanIntervals' = OrphansAfterStart(orphanIntervals, sendInterval, video, captureOk)
    /\ orphanIntervals' <= MaxOrphans
    /\ capturedVideo' = CapturedAfterStart("none", video, captureOk)
    /\ seekListeners' = setupVideoEventListeners(seekListeners, video)
    /\ UNCHANGED <<isEnabled, lastProcessingTime, inFlight, apiMode, subtitleOverlay>>
    /\ UNCHANGED <<wsVars, translationContext, bgPending, staleTabs, attached, ledgerLog, obsVars>>
    /\ UNCHANGED <<hostVars, overlayVars, freshVars, captureVars, procVars, syncVars, storeVars>>

\* handleNewVideoDetected in every other case: the video is only highlighted.
VideoAdded(video) ==
    /\ video \notin pageVideos
    /\ ~(isEnabled /\ pageVideos = {})
    /\ pageVideos' = pageVideos \cup {video}
    /\ UNCHANGED <<schedVars, apiMode, activeVideo, subtitleOverlay, displayed,
                   orphanIntervals, capturedVideo, seekListeners>>
    /\ UNCHANGED <<wsVars, bgVars, obsVars>>
    /\ UNCHANGED <<hostVars, overlayVars, freshVars, captureVars, procVars, syncVars, storeVars>>

\* A video element leaves the document; activeVideo keeps referring to it.
VideoRemoved(video) ==
    /\ video \in pageVideos
    /\ pageVideos' = pageVideos \ {video}
    /\ UNCHANGED <<schedVars, apiMode, activeVideo, subtitleOverlay, displayed,
                   orphanIntervals, capturedVideo, seekListeners>>
    /\ UNCHANGED <<wsVars, bgVars, obsVars>>
    /\ UNCHANGED <<hostVars, overlayVars, freshVars, captureVars, procVars, syncVars, storeVars>>

\* handleMessage 'selectVideo': selectVideoByIndex with the index of a video
\* of the document.
selectVideoByIndex(video) ==
    /\ video \in pageVideos
    /\ activeVideo' = video
    /\ UNCHANGED <<schedVars, apiMode, pageVideos, subtitleOverlay, displayed,
                   orphanIntervals, capturedVideo, seekListeners>>
    /\ UNCHANGED <<wsVars, bgVars, obsVars>>
    /\ UNCHANGED <<hostVars, overlayVars, freshVars, captureVars, procVars, syncVars, storeVars>>

\* The user seeks in a video of the document.  A 'seeking' listener that
\* setupVideoEventListeners put on it empties the buffer and the overlay.
SeekEffect(video) ==
    IF video \in seekListeners THEN <<0, FALSE>> ELSE <<audioChunks, displayed>>

Seeking(video) ==
    /\ video \in pageVideos
    /\ audioChunks' = SeekEffect(video)[1]
    /\ displayed' = SeekEffect(video)[2]
    /\ UNCHANGED <<isEnabled, capturing, sendInterval, currentChunkDuration,
                   lastProcessingTime, lagAccumulator, inFlight>>
    /\ UNCHANGED <<apiMode, pageVideos, activeVideo, subtitleOverlay, orphanIntervals,
                   capturedVideo, seekListeners>>
    /\ UNCHANGED <<wsVars, bgVars, obsVars>>
    /\ UNCHANGED <<hostVars, overlayVars, freshVars, captureVars, procVars, syncVars, storeVars>>

\* handleMessage 'redetect': detectVideos selects the video of a document that
\* has exactly one.
Redetect ==
    /\ activeVideo' = detectVideos(pageVideos, activeVideo)
    /\ UNCHANGED <<schedVars, apiMode, pageVideos, subtitleOverlay, displayed,
                   orphanIntervals, capturedVideo, seekListeners>>
    /\ UNCHANGED <<wsVars, bgVars, obsVars>>
    /\ UNCHANGED <<hostVars, overlayVars, freshVars, captureVars, procVars, syncVars, storeVars>>

\* displaySubtitle's timers: the subtitle fades out and is removed.
SubtitleExpired ==
    /\ displayed
    /\ displayed' = FALSE
    /\ UNCHANGED <<schedVars, apiMode, pageVideos, activeVideo, subtitleOverlay,
                   orphanIntervals, capturedVideo, seekListeners>>
    /\ UNCHANGED <<wsVars, bgVars, obsVars>>
    /\ UNCHANGED <<hostVars, overlayVars, freshVars, captureVars, procVars, syncVars, storeVars>>

-----------------------------------------------------------------------------
(* onaudioprocess sample by sample, and the capture buffer block by block  *)

SampleSteps == 1000     \* input samples are the multiples of 1/SampleSteps
MaxBlocks == 5          \* blocks captured at most

\* The values getChannelData can hold: the nominal range [-1, 1] and a margin
\* beyond it on both sides.
InputSamples == -(SampleSteps + SampleSteps \div 5) .. (SampleSteps + SampleSteps \div 5)

\* ToInt16 of the number n / d (the store into an Int16Array element): the
\* fraction is dropped, then the value is taken modulo 2^16 into
\* -32768 .. 32767.
TruncDiv(n, d) == IF n >= 0 THEN n \div d ELSE -((-n) \div d)
ToInt16(n, d) ==
    LET m == TruncDiv(n, d) % 65536 IN
    IF m >= 32768 THEN m - 65536 ELSE m

\* The sample times 32768 with no bound applied, as a multiple of 1/d.
Unclamped(n, d) == n

\* Math.max(-32768, Math.min(32767, x)) for x = n / d, as a multiple of 1/d.
Clamped(n, d) == Max(-32768 * d, Min(32767 * d, n))

\* content.js line 458: int16Data[i] for inputData[i] = sample / SampleSteps.
EncodeSample(sample) == ToInt16(Clamped(sample * 32768, SampleSteps), SampleSteps)

EncodeInit ==
    /\ sampleIn \in InputSamples
    /\ pcmOut = <<>>
    /\ blocks = <<>>
    /\ blocksCaptured = 0
    /\ chunksSent = <<>>

CaptureIdle ==
    /\ sampleIn = 0
    /\ pcmOut = <<>>
    /\ blocks = <<>>
    /\ blocksCaptured = 0
    /\ chunksSent = <<>>

\* The loop body of onaudioprocess for the sample sampleIn.
SampleEncoded ==
    /\ pcmOut = <<>>
    /\ pcmOut' = <<EncodeSample(sampleIn)>>
    /\ UNCHANGED <<sampleIn, blocks, blocksCaptured, chunksSent>>
    /\ UNCHANGED <<hostVars, overlayVars, freshVars, procVars, syncVars, storeVars, sessionVars>>

\* The n-th block captured: an Int16Array of two samples.
BlockOf(n) == <<2 * n - 1, 2 * n>>

\* onaudioprocess line 460: the block is pushed onto audioChunks.
BlockCaptured ==
    /\ blocksCaptured < MaxBlocks
    /\ blocksCaptured' = blocksCaptured + 1
    /\ blocks' = Append(blocks, BlockOf(blocksCaptured + 1))
    /\ UNCHANGED <<sampleIn, pcmOut, chunksSent>>
    /\ UNCHANGED <<hostVars, overlayVars, freshVars, procVars, syncVars, storeVars, sessionVars>>

\* A merge that leaves the last block out.
MergedWithoutLast(chunks) ==
    IF chunks = <<>> THEN <<>>
    ELSE LET rest == SubSeq(chunks, 1, Len(chunks) - 1) IN
         [i \in 1 .. 2 * Len(rest) |-> rest[(i + 1) \div 2][2 - (i % 2)]]

\* sendAudioChunks lines 487-495: mergedData, each chunk copied at the offset
\* where the chunk before it ended.
RECURSIVE MergedData(_)
MergedData(chunks) ==
    IF chunks = <<>> THEN <<>>
    ELSE Head(chunks) \o MergedData(Tail(chunks))

\* sendAudioChunks: nothing for an empty buffer; otherwise the blocks are
\* merged, audioChunks becomes [] and the merged chunk is handed to the sender.
sendAudioChunks ==
    /\ IF blocks = <<>>
       THEN UNCHANGED <<blocks, chunksSent>>
       ELSE /\ chunksSent' = Append(chunksSent, MergedData(blocks))
            /\ blocks' = <<>>
    /\ UNCHANGED <<sampleIn, pcmOut, blocksCaptured>>
    /\ UNCHANGED <<hostVars, overlayVars, freshVars, procVars, syncVars, storeVars, sessionVars>>

\* audioChunks = [] by the 'seeking' listener, stopAudioCapture or
\* resetTranscriptionState.
BufferCleared ==
    /\ blocks # <<>>
    /\ blocks' = <<>>
    /\ UNCHANGED <<sampleIn, pcmOut, blocksCaptured, chunksSent>>
    /\ UNCHANGED <<hostVars, overlayVars, freshVars, procVars, syncVars, storeVars, sessionVars>>

-----------------------------------------------------------------------------
(* The background page serving the content scripts of two tabs             *)

MaxAppends == 5     \* pairs pushed since the context was last emptied, at most

\* message.apiMode of a transcribe message: 'trial' goes to
\* handleBackendProcessing, every other value to handleDirectProcessing.
RequestModes == { "trial", "groq" }

\* What is said in each tab's video, and its translation.
SpokenIn(tab) == IF tab = "tabA" THEN "Hello" ELSE "Goodbye"
TranslationOf(text) == IF text = "Hello" THEN "Xin chao" ELSE "Tam biet"

\* What processing a request of tab can produce: an error, the transcription
\* with its translation, the transcription alone.
ResultsFor(tab) ==
    { ErrorResult,
      [error |-> FALSE, original |-> SpokenIn(tab),
       translated |-> TranslationOf(SpokenIn(tab))],
      [error |-> FALSE, original |-> SpokenIn(tab), translated |-> ""] }

\* A transcribe message of tab arrives.  handleBackendProcessing puts the
\* context into the form data before its first await.
TranscribeReceived(tab, mode) ==
    /\ bgPending[tab] = "none"
    /\ bgPending' = [bgPending EXCEPT ![tab] = mode]
    /\ attached' = IF mode = "trial"
                   THEN [attached EXCEPT ![tab] = translationContext]
                   ELSE attached
    /\ UNCHANGED <<translationContext, resetsPending, staleTabs, ledgerLog>>
    /\ UNCHANGED <<schedVars, pageVars, wsVars, obsVars>>
    /\ UNCHANGED <<hostVars, overlayVars, freshVars, captureVars, procVars, syncVars, storeVars>>

\* The processing of tab's request ends with result: the context is updated
\* and the answer sent.
ProcessCompleted(tab, result) ==
    /\ bgPending[tab] # "none"
    /\ UpdatesContext(result) => Len(ledgerLog) < MaxAppends
    /\ bgPending' = [bgPending EXCEPT ![tab] = "none"]
    /\ staleTabs' = staleTabs \ {tab}
    /\ translationContext' = ContextAfter(translationContext, result)
    /\ ledgerLog' = IF UpdatesContext(result)
                    THEN Append(ledgerLog, [original |-> result.original,
                                            translated |-> result.translated])
                    ELSE ledgerLog
    /\ UNCHANGED <<resetsPending, attached>>
    /\ UNCHANGED <<schedVars, pageVars, wsVars, obsVars>>
    /\ UNCHANGED <<hostVars, overlayVars, freshVars, captureVars, procVars, syncVars, storeVars>>

\* background.js lines 57-60: the resetContext message of tab is handled.
ResetContextReceived(tab) ==
    /\ translationContext # <<>>
    /\ translationContext' = <<>>
    /\ ledgerLog' = <<>>
    /\ staleTabs' = IF bgPending[tab] # "none" THEN staleTabs \cup {tab} ELSE staleTabs
    /\ UNCHANGED <<resetsPending, bgPending, attached>>
    /\ UNCHANGED <<schedVars, pageVars, wsVars, obsVars>>
    /\ UNCHANGED <<hostVars, overlayVars, freshVars, captureVars, procVars, syncVars, storeVars>>

-----------------------------------------------------------------------------
(* One transcribe message through the background page, fetch by fetch      *)

\* A property the message or the configuration does not have.
Undefined == "undefined"

\* !x of JavaScript for a string or undefined.
Falsy(x) == x \in { "", Undefined }

\* config.js, as far as background.js reads it.
Configs == [apiSecret : { Undefined, "", "secret" }, backendUrl : { "", "https://backend" }]

\* The keys a user can have stored.
ApiKeys == { "", "gsk_key" }

\* The fields of a transcribe message that the background page reads or the
\* content script writes.
NoMessage == [apiMode |-> Undefined, groqApiKey |-> Undefined, apiKey |-> Undefined,
              targetLang |-> Undefined]

\* The transcribe messages the listener's interface admits.
Messages ==
    [apiMode : { "trial", "groq", "openai" }, groqApiKey : ApiKeys, apiKey : { Undefined },
     targetLang : { "", "vi" }]

\* sendToGroqAPI lines 519-526: the message the content script builds from
\* its settings.  It has no apiMode and no groqApiKey property; the key is
\* its apiKey property.
MessageOf(key) ==
    [apiMode |-> Undefined, groqApiKey |-> Undefined, apiKey |-> key, targetLang |-> "vi"]

NoAnswer == [error |-> FALSE, reason |-> "pending", original |-> "", translated |-> ""]
ErrorAnswer(reason) == [error |-> TRUE, reason |-> reason, original |-> "", translated |-> ""]
Success(original, translated) ==
    [error |-> FALSE, reason |-> "", original |-> original, translated |-> translated]

MissingCredentials == "Miss match credentials"
MissingApiKey == "API Key is missing!"
RequestFailed == "request failed"

\* translateText line 198: the context as blocks of an original and a
\* translation line, in the order of the context.
ContextLines(context) ==
    [i \in 1 .. 2 * Len(context) |->
        IF i % 2 = 1
        THEN [label |-> "Original", text |-> context[(i + 1) \div 2].original]
        ELSE [label |-> "Translation", text |-> context[i \div 2].translated]]

\* translateText lines 199-202: the instruction built with the context.
systemPrompt(targetLang, context) ==
    [targetLang |-> targetLang, context |-> ContextLines(context)]

\* translateText line 221: the content of the system message in the request
\* body, a literal of its own that names the target language only.
SystemMessage(targetLang, context) == [targetLang |-> targetLang, context |-> <<>>]

NoPrompt == [targetLang |-> Undefined, context |-> <<>>]

ProcessLoaded(cfg, key) ==
    /\ config = cfg
    /\ groqApiKey = key
    /\ bgRequest = NoMessage
    /\ bgStage = "idle"
    /\ bgFetches = 0
    /\ bgAnswer = NoAnswer
    /\ bgPrompt = NoPrompt

ProcessIdle == ProcessLoaded([apiSecret |-> "secret", backendUrl |-> "https://backend"], "")

ProcessInit == \E cfg \in Configs, key \in ApiKeys : ProcessLoaded(cfg, key)

\* A credential check that looks at the endpoint only.
HasEndpoint(cfg) == ~Falsy(cfg.backendUrl)

\* background.js line 75, negated: both the secret and the endpoint are set.
HasCredentials(cfg) == ~(Falsy(cfg.apiSecret) \/ Falsy(cfg.backendUrl))

\* background.js lines 45-55: which handler the listener runs for message.
HandlerOf(message) == IF message.apiMode = "trial" THEN "backend" ELSE "direct"

\* The handler ends with answer: a result with both texts is pushed into the
\* context before it is returned, and sendResponse is called with the answer.
Answered(answer) ==
    /\ UpdatesContext(answer) => Len(ledgerLog) < MaxAppends
    /\ bgAnswer' = answer
    /\ bgStage' = "idle"
    /\ translationContext' = ContextAfter(translationContext, answer)
    /\ ledgerLog' = IF UpdatesContext(answer)
                    THEN Append(ledgerLog, [original |-> answer.original,
                                            translated |-> answer.translated])
                    ELSE ledgerLog

\* The listener's 'transcribe' case for message, up to the handler's first
\* await: the handler is chosen by message.apiMode, it checks its credentials
\* and either throws, which is answered as an error, or starts its first fetch.
TranscribeHandled(message) ==
    /\ bgStage = "idle"
    /\ bgRequest' = message
    /\ IF HandlerOf(message) = "backend"
       THEN IF HasCredentials(config)
            THEN /\ bgStage' = "proxy"
                 /\ bgFetches' = 1
                 /\ bgAnswer' = NoAnswer
            ELSE /\ bgStage' = "idle"
                 /\ bgFetches' = 0
                 /\ bgAnswer' = ErrorAnswer(MissingCredentials)
       ELSE IF Falsy(message.groqApiKey)
            THEN /\ bgStage' = "idle"
                 /\ bgFetches' = 0
                 /\ bgAnswer' = ErrorAnswer(MissingApiKey)
            ELSE /\ bgStage' = "transcribing"
                 /\ bgFetches' = 1
                 /\ bgAnswer' = NoAnswer
    /\ UNCHANGED <<config, groqApiKey, bgPrompt>>
    /\ UNCHANGED <<translationContext, resetsPending, bgPending, staleTabs, attached, ledgerLog>>
    /\ UNCHANGED <<schedVars, pageVars, wsVars, obsVars>>
    /\ UNCHANGED <<hostVars, overlayVars, freshVars, captureVars, syncVars, storeVars>>

\* sendToGroqAPI lines 519-526 of a session in Groq mode: its message reaches
\* the listener.
TranscribeSent ==
    /\ apiMode = "groq"
    /\ TranscribeHandled(MessageOf(groqApiKey))

\* handleBackendProcessing lines 91-117: the fetch of the proxy endpoint
\* settles.  A rejected fetch and a response that is not ok are thrown and
\* answered as an error; a result is answered and, with both texts, pushed.
ProxyOutcomes == { "network", "non2xx", "pair", "plain" }
ProxyResponded(outcome) ==
    /\ bgStage = "proxy"
    /\ Answered(CASE outcome = "pair" -> Success(SpokenIn("tabA"), TranslationOf(SpokenIn("tabA")))
                  [] outcome = "plain" -> Success(SpokenIn("tabA"), "")
                  [] OTHER -> ErrorAnswer(RequestFailed))
    /\ UNCHANGED <<config, groqApiKey, bgRequest, bgFetches, bgPrompt>>
    /\ UNCHANGED <<resetsPending, bgPending, staleTabs, attached>>
    /\ UNCHANGED <<schedVars, pageVars, wsVars, obsVars>>
    /\ UNCHANGED <<hostVars, overlayVars, freshVars, captureVars, syncVars, storeVars>>

\* handleDirectProcessing lines 145-166: the fetch of the transcription
\* endpoint settles.  With a target language translateText is called, which
\* runs up to its own fetch with the context as it is then.
TranscriptionOutcomes == { "network", "non2xx", "ok" }
TranscriptionResponded(outcome) ==
    /\ bgStage = "transcribing"
    /\ IF outcome = "ok" /\ ~Falsy(bgRequest.targetLang)
       THEN /\ bgStage' = "translating"
            /\ bgFetches' = bgFetches + 1
            /\ bgPrompt' = SystemMessage(bgRequest.targetLang, translationContext)
            /\ UNCHANGED <<bgAnswer, translationContext, ledgerLog>>
       ELSE /\ Answered(IF outcome = "ok" THEN Success(SpokenIn("tabA"), "")
                        ELSE ErrorAnswer(RequestFailed))
            /\ UNCHANGED <<bgFetches, bgPrompt>>
    /\ UNCHANGED <<config, groqApiKey, bgRequest>>
    /\ UNCHANGED <<resetsPending, bgPending, staleTabs, attached>>
    /\ UNCHANGED <<schedVars, pageVars, wsVars, obsVars>>
    /\ UNCHANGED <<hostVars, overlayVars, freshVars, captureVars, syncVars, storeVars>>

\* translateText lines 212-232: what the call comes to when its fetch
\* settles.  A response that is not ok and a response without content give
\* ''; a rejected fetch is not caught and the call throws.
TranslationOutcomes == { "network", "non2xx", "empty", "ok" }
translateText(outcome) ==
    CASE outcome = "network" -> [thrown |-> TRUE, text |-> ""]
      [] outcome = "ok" -> [thrown |-> FALSE, text |-> TranslationOf(SpokenIn("tabA"))]
      [] OTHER -> [thrown |-> FALSE, text |-> ""]

\* handleDirectProcessing lines 164-189: translateText settles.  What it
\* throws is rethrown by the handler and answered as an error.
TranslationResponded(outcome) ==
    /\ bgStage = "translating"
    /\ LET translation == translateText(outcome) IN
       Answered(IF translation.thrown THEN ErrorAnswer(RequestFailed)
                ELSE Success(SpokenIn("tabA"), translation.text))
    /\ UNCHANGED <<config, groqApiKey, bgRequest, bgFetches, bgPrompt>>
    /\ UNCHANGED <<resetsPending, bgPending, staleTabs, attached>>
    /\ UNCHANGED <<schedVars, pageVars, wsVars, obsVars>>
    /\ UNCHANGED <<hostVars, overlayVars, freshVars, captureVars, syncVars, storeVars>>

-----------------------------------------------------------------------------
(* The subtitle overlay, its entries and their timers                      *)

MaxOverlays == 2        \* overlay elements created in a run
MaxEntries == 3         \* subtitle wrappers created in a run

\* A wrapper as displaySubtitle creates it: a child of the overlay, without
\* the fade-out class, its display timer armed.
NewContainer(overlay) == [parent |-> overlay, fadeOut |-> FALSE, timer |-> "display"]

\* subtitleOverlay.innerHTML = '': the children of the element are detached.
Emptied(list, overlay) ==
    [c \in DOMAIN list |->
        IF list[c].parent = overlay THEN [list[c] EXCEPT !.parent = 0] ELSE list[c]]

\* The wrappers that are children of the element subtitleOverlay refers to.
ChildrenOf(list, overlay) == { c \in DOMAIN list : overlay # 0 /\ list[c].parent = overlay }

OverlayAt(overlay, made, list) ==
    /\ overlayEl = overlay
    /\ overlaysMade = made
    /\ containers = list

OverlayIdle == OverlayAt(0, 0, <<>>)

\* createSubtitleOverlay lines 664-679.
OverlayCreated ==
    /\ overlaysMade < MaxOverlays
    /\ IF overlayEl # 0
       THEN UNCHANGED <<overlayEl, overlaysMade>>
       ELSE /\ overlaysMade' = overlaysMade + 1
            /\ overlayEl' = overlaysMade + 1
    /\ UNCHANGED containers
    /\ UNCHANGED <<hostVars, freshVars, captureVars, procVars, syncVars, storeVars,
                   sessionVars>>

\* removeSubtitleOverlay lines 730-736: the element leaves the document with
\* its children still attached to it.
OverlayRemoved ==
    /\ overlayEl' = 0
    /\ UNCHANGED <<overlaysMade, containers>>
    /\ UNCHANGED <<hostVars, freshVars, captureVars, procVars, syncVars, storeVars,
                   sessionVars>>

\* resetTranscriptionState line 286 and disableSubtitles line 336.
OverlayEmptied ==
    /\ overlayEl # 0
    /\ containers' = Emptied(containers, overlayEl)
    /\ UNCHANGED <<overlayEl, overlaysMade>>
    /\ UNCHANGED <<hostVars, freshVars, captureVars, procVars, syncVars, storeVars,
                   sessionVars>>

\* displaySubtitle lines 690-728 up to the arming of the display timer.
EntryDisplayed ==
    /\ Len(containers) < MaxEntries
    /\ containers' = IF overlayEl = 0
                        THEN containers
                        ELSE Append(Emptied(containers, overlayEl), NewContainer(overlayEl))
    /\ UNCHANGED <<overlayEl, overlaysMade>>
    /\ UNCHANGED <<hostVars, freshVars, captureVars, procVars, syncVars, storeVars,
                   sessionVars>>

\* Timers of one delay fire in the order in which they were armed.
NoEarlierTimer(c, kind) == \A d \in 1 .. c - 1 : containers[d].timer # kind

\* The outer timeout of displaySubtitle, lines 720-727.
DisplayTimerFired(c) ==
    /\ containers[c].timer = "display"
    /\ NoEarlierTimer(c, "display")
    /\ containers' = [containers EXCEPT ![c] = [@ EXCEPT !.fadeOut = TRUE, !.timer = "fade"]]
    /\ UNCHANGED <<overlayEl, overlaysMade>>
    /\ UNCHANGED <<hostVars, freshVars, captureVars, procVars, syncVars, storeVars,
                   sessionVars>>

\* The inner timeout's removal, lines 723-725, with the entries emptied out of
\* the overlay whichever wrapper the timer belongs to.
RemovedWithoutCheck(list, c, overlay) ==
    IF overlay # 0 THEN Emptied(list, overlay) ELSE list

\* The inner timeout's removal, lines 723-725: the wrapper leaves the overlay
\* only while it is still the overlay's child. A detached wrapper compares
\* equal to a null overlay; removeChild then throws inside the callback and
\* nothing changes.
RemovedByTimer(list, c, overlay) ==
    IF overlay # 0 /\ list[c].parent = overlay
    THEN [list EXCEPT ![c].parent = 0]
    ELSE list

\* The inner timeout of displaySubtitle, lines 722-726.
FadeTimerFired(c) ==
    /\ containers[c].timer = "fade"
    /\ NoEarlierTimer(c, "fade")
    /\ containers' = [RemovedByTimer(containers, c, overlayEl) EXCEPT ![c].timer = "done"]
    /\ UNCHANGED <<overlayEl, overlaysMade>>
    /\ UNCHANGED <<hostVars, freshVars, captureVars, procVars, syncVars, storeVars,
                   sessionVars>>

-----------------------------------------------------------------------------
(* The freshness guard of sendToGroqAPI on wall-clock time                 *)

MaxDuration == 20       \* the video's duration in seconds

\* Date.now() at four moments of a day in November 2023, as the seconds since
\* the epoch and the milliseconds beyond them.
WallClocks == [sec : { 1700000000 + d : d \in 0 .. 3 }, ms : { 0, 500 }]

\* activeVideo.currentTime, which lies within the video.
PlaybackTimes == 0 .. MaxDuration

\* sendToGroqAPI lines 510-511: chunkAge = Date.now() - videoTime * 1000 and
\* chunkAge > MAX_LAG_MS, for Date.now() = now.sec * 1000 + now.ms: compared
\* in seconds, so that no number beyond 2^31 is formed.
TooOld(now, videoTime) ==
    \/ now.sec - videoTime > MAX_LAG_MS \div 1000
    \/ now.sec - videoTime = MAX_LAG_MS \div 1000 /\ now.ms > 0

FreshAt(now, videoTime) ==
    /\ wallClock = now
    /\ playbackTime = videoTime
    /\ dispatch = "none"

FreshIdle == FreshAt([sec |-> 1700000000, ms |-> 0], 0)

FreshInit == \E now \in WallClocks, videoTime \in PlaybackTimes : FreshAt(now, videoTime)

\* sendToGroqAPI lines 509-526 for the chunk sendAudioChunks has just merged:
\* it is skipped as too far behind or sent with the transcribe message.
ChunkDispatched ==
    /\ dispatch = "none"
    /\ dispatch' = IF TooOld(wallClock, playbackTime) THEN "dropped" ELSE "sent"
    /\ UNCHANGED <<wallClock, playbackTime>>
    /\ UNCHANGED <<hostVars, overlayVars, captureVars, procVars, syncVars, storeVars,
                   sessionVars>>

-----------------------------------------------------------------------------
(* Specifications *)

\* One tab: the service, its consent API, the popup's settings and sync calls.
NextSync ==
    \/ InitSteps({"tabA"})
    \/ \E e \in BOOLEAN : setConsent("tabA", e)
    \/ SetConsentStored("tabA")
    \/ \E b \in BOOLEAN : saveSettings(b)
    \/ SyncCallSteps({"tabA"})

InitSync == SyncInit /\ HostIdle /\ CaptureIdle /\ StoreIdle /\ SchedIdle /\ ProcessIdle
        /\ OverlayIdle /\ FreshIdle

SpecSync == InitSync /\ [][NextSync]_vars

\* Two tabs: overlapping initialisations and sync calls.
NextRace ==
    \/ InitSteps(Svc)
    \/ SyncCallSteps(Svc)

InitRace == RaceInit /\ HostIdle /\ CaptureIdle /\ StoreIdle /\ SchedIdle /\ ProcessIdle
        /\ OverlayIdle /\ FreshIdle

SpecRace == InitRace /\ [][NextRace]_vars

NextHost == IsWhitelistedCall

InitHost == HostInit /\ CaptureIdle /\ SyncIdle /\ StoreIdle /\ SchedIdle /\ ProcessIdle
        /\ OverlayIdle /\ FreshIdle

SpecHost == InitHost /\ [][NextHost]_vars

\* Only saveSegment calls, overlapping up to MaxTasks at a time.
NextSave ==
    \/ \E t \in TaskIds, u \in StoreUrls : SaveSegmentCall(t, u)
    \/ \E t \in TaskIds : SaveVideoTxRun(t)
    \/ \E t \in TaskIds, st \in StartTimes, o \in OriginalInputs, tr \in TranslationInputs :
            SaveSegmentTxRun(t, st, o[1], o[2], tr)

InitSave == StoreInit /\ HostIdle /\ CaptureIdle /\ SyncIdle /\ SchedIdle /\ ProcessIdle
        /\ OverlayIdle /\ FreshIdle

SpecSave == InitSave /\ [][NextSave]_vars

\* The whole SubtitleStore API on one video: saves, added translations, clears
\* and reads, overlapping two at a time.
NextStore ==
    \/ \E t \in TaskIds : SaveSegmentCall(t, "u1")
    \/ \E t \in TaskIds : SaveVideoTxRun(t)
    \/ \E t \in TaskIds : SaveSegmentTxRun(t, 10, "Hello", "en", "vi" :> "Xin chao")
    \/ \E t \in TaskIds : AddTranslationCall(t, "u1")
    \/ \E t \in TaskIds, a \in AddInputs : AddTranslationTxRun(t, 10, a[1], a[2])
    \/ \E t \in TaskIds : ClearAllCall(t)
    \/ \E t \in TaskIds : ClearVideosTxRun(t)
    \/ \E t \in TaskIds : ClearSegmentsTxRun(t)
    \/ \E t \in TaskIds, op \in {"exportAll", "getStats"} : ReadAllCall(t, op)
    \/ \E t \in TaskIds : ReadVideosTxRun(t)
    \/ \E t \in TaskIds : ReadSegmentsTxRun(t)
    \/ \E t \in TaskIds : ReadAllReturned(t)

InitStore == StoreInit /\ HostIdle /\ CaptureIdle /\ SyncIdle /\ SchedIdle /\ ProcessIdle
        /\ OverlayIdle /\ FreshIdle

SpecStore == InitStore /\ [][NextStore]_vars

\* One capture session in Groq mode on the selected video, and the background
\* page answering it.
NextSched ==
    \/ \E ok \in BOOLEAN : enableSubtitles("unchanged", ok)
    \/ disableSubtitles
    \/ onaudioprocess
    \/ \E now \in Nows, vt \in VideoTimes : IntervalTick(now, vt)
    \/ \E r \in Results, pt \in ProcessingTimes, saveOk \in BOOLEAN :
            TranscribeAnswered(r, pt, saveOk)
    \/ TranscribeRejected
    \/ ResetContextHandled
    \/ \E v \in Videos : VideoSourceChanged(v)
    \/ \E v \in Videos : Seeking(v)
    \/ SubtitleExpired

InitSched == SchedInit /\ HostIdle /\ CaptureIdle /\ SyncIdle /\ StoreIdle /\ ProcessIdle
        /\ OverlayIdle /\ FreshIdle

SpecSched == InitSched /\ [][NextSched]_vars

\* One capture session in local mode on the selected video: the chunks go
\* over the WebSocket to the local backend.
NextLocal ==
    \/ \E ok \in BOOLEAN : enableSubtitles("unchanged", ok)
    \/ disableSubtitles
    \/ \E ok \in BOOLEAN : SocketOpened(ok)
    \/ SocketFailed
    \/ SocketClosed
    \/ ClosedSocketEvents
    \/ SupersededSocketClosed
    \/ ReconnectFired
    \/ onaudioprocess
    \/ \E now \in Nows, vt \in VideoTimes : IntervalTick(now, vt)
    \/ \E r \in Results, saveOk \in BOOLEAN : SocketMessage(r, saveOk)
    \/ ResetContextHandled
    \/ \E v \in Videos : VideoSourceChanged(v)
    \/ \E v \in Videos : Seeking(v)
    \/ SubtitleExpired

InitLocal == SessionAt({"v1", "v2"}, "v1", "local") /\ HostIdle /\ CaptureIdle /\ SyncIdle /\ StoreIdle /\ ProcessIdle
        /\ OverlayIdle /\ FreshIdle

SpecLocal == InitLocal /\ [][NextLocal]_vars

\* The same session with its reconnect timeout, which fires once it is set:
\* setTimeout runs its callback after 3 s whatever else happens.
SpecLocalFair == SpecLocal /\ WF_vars(ReconnectFired)

\* The session on a page whose videos come, go and are selected; its
\* transcribe requests are not answered.
NextPage ==
    \/ \E mode \in {"groq", "trial", "unchanged"}, ok \in BOOLEAN : enableSubtitles(mode, ok)
    \/ disableSubtitles
    \/ \E v \in Videos : VideoAdded(v)
    \/ \E v \in Videos : VideoRemoved(v)
    \/ \E v \in Videos, ok \in BOOLEAN : switchToVideo(v, ok)
    \/ \E v \in Videos : selectVideoByIndex(v)
    \/ Redetect
    \/ \E v \in Videos : VideoSourceChanged(v)
    \/ \E v \in Videos : Seeking(v)
    \/ onaudioprocess
    \/ \E now \in Nows, vt \in VideoTimes : IntervalTick(now, vt)
    \/ TranscribeRejected
    \/ ResetContextHandled

InitPage ==
    /\ \E onPage \in SUBSET Videos : SessionLoaded(onPage, "groq")
    /\ HostIdle /\ CaptureIdle /\ SyncIdle /\ StoreIdle /\ ProcessIdle
    /\ OverlayIdle /\ FreshIdle

SpecPage == InitPage /\ [][NextPage]_vars

\* The background page and the messages of two tabs.
NextLedger ==
    \/ \E tab \in Tabs, mode \in RequestModes : TranscribeReceived(tab, mode)
    \/ \E tab \in Tabs : \E result \in ResultsFor(tab) : ProcessCompleted(tab, result)
    \/ \E tab \in Tabs : ResetContextReceived(tab)

InitLedger == SchedIdle /\ HostIdle /\ CaptureIdle /\ SyncIdle /\ StoreIdle /\ ProcessIdle
        /\ OverlayIdle /\ FreshIdle

SpecLedger == InitLedger /\ [][NextLedger]_vars

\* onaudioprocess applied to one sample.
NextEncode == SampleEncoded

InitEncode == EncodeInit /\ HostIdle /\ SyncIdle /\ StoreIdle /\ SchedIdle /\ ProcessIdle
        /\ OverlayIdle /\ FreshIdle

SpecEncode == InitEncode /\ [][NextEncode]_vars

\* The capture buffer: blocks pushed, drained by the tick, cleared.
NextBuffer ==
    \/ BlockCaptured
    \/ sendAudioChunks
    \/ BufferCleared

InitBuffer == CaptureIdle /\ HostIdle /\ SyncIdle /\ StoreIdle /\ SchedIdle /\ ProcessIdle
        /\ OverlayIdle /\ FreshIdle

SpecBuffer == InitBuffer /\ [][NextBuffer]_vars

\* The background page processing the transcribe messages of one tab, one at
\* a time: those of its interface and those the content script sends.
NextProcess ==
    \/ \E message \in Messages : TranscribeHandled(message)
    \/ TranscribeSent
    \/ \E outcome \in ProxyOutcomes : ProxyResponded(outcome)
    \/ \E outcome \in TranscriptionOutcomes : TranscriptionResponded(outcome)
    \/ \E outcome \in TranslationOutcomes : TranslationResponded(outcome)
    \/ ResetContextReceived("tabA")

InitProcess == ProcessInit /\ SchedIdle /\ HostIdle /\ CaptureIdle /\ SyncIdle /\ StoreIdle
        /\ OverlayIdle /\ FreshIdle

SpecProcess == InitProcess /\ [][NextProcess]_vars

\* The freshness guard on one chunk at wall-clock time.
NextFresh == ChunkDispatched

InitFresh == FreshInit /\ SchedIdle /\ HostIdle /\ CaptureIdle /\ SyncIdle /\ StoreIdle
        /\ ProcessIdle /\ OverlayIdle

SpecFresh == InitFresh /\ [][NextFresh]_vars

\* The overlay across enable and disable, with the entries' timers.
NextOverlay ==
    \/ OverlayCreated
    \/ OverlayRemoved
    \/ OverlayEmptied
    \/ EntryDisplayed
    \/ \E c \in DOMAIN containers : DisplayTimerFired(c)
    \/ \E c \in DOMAIN containers : FadeTimerFired(c)

InitOverlay == OverlayIdle /\ FreshIdle /\ SchedIdle /\ HostIdle /\ CaptureIdle /\ SyncIdle
        /\ StoreIdle /\ ProcessIdle

SpecOverlay == InitOverlay /\ [][NextOverlay]_vars

\* A timeout that was set fires once its delay has elapsed.
SpecOverlayFair ==
    /\ SpecOverlay
    /\ WF_vars(\E c \in DOMAIN containers : DisplayTimerFired(c))
    /\ WF_vars(\E c \in DOMAIN containers : FadeTimerFired(c))

-----------------------------------------------------------------------------
(* The allow-list as the specification states it *)

\* The hostname is one of the four platforms or a subdomain of one.
AllowListed(host) ==
    \E p \in Platforms : host = p \/ EndsWith(host, Dot \o p)

UrlAllowListed(url) == url.ok /\ AllowListed(URL_hostname(url))

OriginalEmpty(original) == original = NoText \/ Trim(original) = <<>>

Decided(call) == call.pc \in {"fetch", "done"}

-----------------------------------------------------------------------------
(* Claims *)

\* C1: a syncSegment call whose decision finds consent false, or the endpoint
\* URL or the key unset, or a URL outside the allow-list (none of the four
\* platforms nor a subdomain of one), or an original that is empty after
\* trimming, returns false and issues no request.
C1_SyncBlockedUnlessAllChecksPass ==
    \A s \in Svc :
        LET call == calls[s] IN
        ( /\ Decided(call)
          /\ \/ ~call.at.isEnabled
             \/ call.at.supabaseUrl = NULL
             \/ call.at.supabaseAnonKey = NULL
             \/ ~UrlAllowListed(call.url)
             \/ OriginalEmpty(call.original) )
        => (call.pc = "done" /\ call.result = FALSE /\ call.sent = 0)

\* C2: isWhitelistedSite returns true only for a hostname that is one of the
\* four platforms or a subdomain of one, and false for every other hostname.
C2_WhitelistIsExactOrSubdomain ==
    wlResult # "pending" =>
        (wlResult = "true" <=> UrlAllowListed(wlUrl))

\* C3: isWhitelistedSite returns false, and does not throw, for every URL that
\* is malformed or whose scheme is neither http nor https, whatever its host.
C3_NonHttpNeverMatches ==
    (wlResult # "pending" /\ (~wlUrl.ok \/ wlUrl.scheme \notin {"http", "https"}))
        => wlResult = "false"

\* C4: a syncSegment call whose decision finds consent true, endpoint and key
\* configured, an allow-listed URL and a non-empty trimmed original issues
\* exactly one POST to the configured endpoint carrying the device identifier;
\* it returns true exactly when the response reports success, returns false on
\* a network failure, and never rejects.
C4_SyncPostsOnceAndReportsResponse ==
    \A s \in Svc :
        LET call == calls[s] IN
        ( /\ Decided(call)
          /\ call.at.isEnabled
          /\ call.at.supabaseUrl # NULL
          /\ call.at.supabaseAnonKey # NULL
          /\ UrlAllowListed(call.url)
          /\ ~OriginalEmpty(call.original) )
        => /\ call.sent = 1
           /\ call.req.method = "POST"
           /\ call.req.endpoint = call.at.supabaseUrl
           /\ call.req.device_id # NULL
           /\ call.req.device_id = call.at.deviceId
           /\ call.pc = "done" =>
                /\ call.outcome \in {"response-ok", "response-not-ok", "network-failure"}
                /\ call.result <=> (call.outcome = "response-ok")

\* C4 witness: such a call has sent its POST, the network failed, and the call
\* has returned false.
C4_Witness ==
    \E s \in Svc :
        /\ calls[s].pc = "done"
        /\ calls[s].at.isEnabled
        /\ UrlAllowListed(calls[s].url)
        /\ calls[s].sent = 1
        /\ calls[s].outcome = "network-failure"
        /\ calls[s].result = FALSE

\* C5: an identifier is generated only when none is persisted, a persisted
\* identifier is never replaced, and every sync request carries the identifier
\* that is persisted when it is sent (so none is sent before it is persisted).
C5_DeviceIdGeneratedOnceAndCarried ==
    [][ /\ nextUuid' # nextUuid => localStore.deviceId = NULL
        /\ localStore.deviceId # NULL => localStore'.deviceId = localStore.deviceId
        /\ \A s \in Svc :
              calls'[s].sent > 0 => calls'[s].req.device_id = calls'[s].req.persisted
      ]_vars

\* C6: every syncSegment decision uses the consent the popup's settings hold
\* at that time, and a request is sent only while that setting is true.
C6_SyncFollowsConsentSetting ==
    \A s \in Svc :
        Decided(calls[s]) =>
            /\ calls[s].at.isEnabled = calls[s].setting
            /\ calls[s].sent > 0 => calls[s].setting

\* C7: for saveSegment calls on the same (videoUrl, startTime), overlapping ones
\* included, there is exactly one segment record for the key once a save has
\* been applied; each language slot of it holds the last non-empty translation
\* supplied for that language (an empty or missing incoming translation erases
\* nothing), and its original and sourceLang are those of the last save applied.
C7_SavesMergeIntoOneRecord ==
    \A k \in StoreKeys :
        LET recs == SegmentsAt(generateVideoId(k[1]), k[2]) IN
        IF supplied[k] = NothingSupplied
        THEN recs = {}
        ELSE /\ Cardinality(recs) = 1
             /\ \A g \in recs :
                    /\ g.original = supplied[k].original
                    /\ g.sourceLang = supplied[k].sourceLang
                    /\ \A l \in SUPPORTED_LANGUAGES :
                            Get(g.translations, l) = supplied[k].slots[l]

\* Saves on (u1, 10) have been merged (vi replaced, en added by another save,
\* the original replaced) while one more save on the same video is in flight.
C7_Witness ==
    /\ \E g \in SegmentsAt(generateVideoId("u1"), 10) :
            /\ g.translations["vi"] = "Chao"
            /\ g.translations["en"] = "Hello"
            /\ g.original = "Hi"
    /\ \E t \in TaskIds : tasks[t].op = "saveSegment" /\ tasks[t].pc = "segmentsTx"
                          /\ tasks[t].url = "u1"

\* C8: after any saveSegment or addTranslation, whatever language codes they
\* are given, the translations of every stored segment have exactly the ten
\* supported language keys.
C8_TranslationsHaveTheTenKeys ==
    \A g \in segments : DOMAIN g.translations = SUPPORTED_LANGUAGES

\* A clearAll is between its two transactions.
ClearAllInProgress == \E t \in TaskIds : tasks[t].op = "clearAll"

Orphans(segs, vids) == { g \in segs : \A v \in vids : v.id # g.videoId }

\* C9: clearAll is atomic with respect to saveSegment and to the reads of
\* exportAll and getStats: outside clearAll's own two transactions the database
\* never holds a segment whose videoId has no video record, and no export or
\* statistics result shows such a segment.
C9_NoSegmentWithoutVideo ==
    /\ ~ClearAllInProgress => Orphans(segments, videos) = {}
    /\ \A t \in TaskIds :
            tasks[t].pc = "done" =>
                /\ Orphans(tasks[t].gotSegments, tasks[t].gotVideos) = {}
                /\ tasks[t].countVideos = 0 => tasks[t].countSegments = 0

\* C10: in every reachable state, after any processed chunks with any
\* processing times and any resets, the scheduler's current period (and the
\* period of the armed interval) lies in 2000..6000 ms and differs from the
\* 3000 ms default by a multiple of 500 ms.
C10_PeriodWithinBoundsOnGrid ==
    \A period \in {currentChunkDuration} \cup ({sendInterval} \ {0}) :
        /\ period >= 2000 /\ period <= 6000
        /\ (period - AUDIO_CHUNK_DURATION_MS) % 500 = 0

\* A slow answer arrived while the period was already at its upper bound, after
\* the period had been reset and adapted again.
C10_Witness ==
    /\ currentChunkDuration = 6000
    /\ sendInterval = 6000
    /\ lastProcessingTime = 5000
    /\ inFlight > 0

\* C11: every completed dispatch adapts the period by the rule: with p the
\* current period and t the processing time, the new period is p + 500 when
\* t > 0.8 p and p < 6000, otherwise p - 500 when t < 0.3 p and p > 2000,
\* otherwise p.
C11_Rule(p, t) ==
    IF 10 * t > 8 * p /\ p < 6000 THEN p + 500
    ELSE IF 10 * t < 3 * p /\ p > 2000 THEN p - 500
    ELSE p

C11_AdaptsByTheRule ==
    [][\A t \in ProcessingTimes :
            (/\ lastProcessingTime' = t
             /\ \E r \in Results, saveOk \in BOOLEAN : TranscribeAnswered(r, t, saveOk))
            => currentChunkDuration' = C11_Rule(currentChunkDuration, t)]_vars

\* A dispatch completed in 2800 ms and the period is 3500 ms: either it grew
\* from 3000 ms, or it was 3500 ms and 2800 ms is exactly its threshold.
C11_Witness ==
    /\ currentChunkDuration = 3500
    /\ lastProcessingTime = 2800

\* C12: whenever the scheduler runs, the period the armed tick was scheduled
\* with equals the current period: every change of the period (an adaptive
\* step, the reset to the default on a change of the video source) cancels the
\* tick and schedules it again with the new period.
C12_ArmedPeriodIsCurrent ==
    isEnabled /\ sendInterval # 0 => sendInterval = currentChunkDuration

\* C13: a drained chunk whose age exceeds 5000 ms is not dispatched: no
\* transcribe request and no network send is made for it, the lag accumulator
\* is 0 afterwards, and the period, the armed tick and the translation context
\* are left as they were.
C13_StaleChunkIsSkipped ==
    [][\A now \in Nows, vt \in VideoTimes :
            chunkAge(now, vt) > MAX_LAG_MS /\ IntervalTick(now, vt) =>
                /\ inFlight' = inFlight
                /\ socketOut' = socketOut
                /\ lagAccumulator' = 0
                /\ currentChunkDuration' = currentChunkDuration
                /\ sendInterval' = sendInterval
                /\ translationContext' = translationContext]_vars

\* C16: enabling an idle session uses the video selected before; without a
\* selection it selects the only video of a page that has exactly one; without
\* a selection on a page with no video or with more than one it fails: the
\* session stays idle, with no capture graph and no tick armed.
C16_EnableResolvesTheVideo ==
    [][\A mode \in Modes \cup {"unchanged"}, ok \in BOOLEAN :
            ~isEnabled /\ enableSubtitles(mode, ok) =>
                IF activeVideo # "none"
                THEN activeVideo' = activeVideo
                ELSE IF Cardinality(pageVideos) = 1
                THEN activeVideo' \in pageVideos
                ELSE ~isEnabled' /\ ~capturing' /\ sendInterval' = 0]_vars

\* C17: when enabling finds its video but the capture cannot be started, no
\* side effect of the attempt remains: the session is not enabled, there is no
\* capture graph, no tick armed and no overlay.
C17_FailedCaptureLeavesNothing ==
    [][\A mode \in Modes \cup {"unchanged"} :
            (/\ ~isEnabled /\ apiMode # "local" /\ mode # "local"
             /\ ResolveVideo(activeVideo, pageVideos) # "none"
             /\ enableSubtitles(mode, FALSE)) =>
                /\ ~isEnabled' /\ ~capturing' /\ sendInterval' = 0
                /\ ~subtitleOverlay']_vars

\* The last n entries of a sequence, in order.
LastEntries(seq, n) ==
    IF Len(seq) <= n THEN seq ELSE SubSeq(seq, Len(seq) - n + 1, Len(seq))

\* C14: the translation context never holds more than 3 pairs, and it holds
\* the most recently pushed ones in the order their requests completed: a push
\* onto a full context evicts the oldest pair.
C14_ContextIsLastThree ==
    /\ Len(translationContext) <= 3
    /\ translationContext = LastEntries(ledgerLog, 3)

\* Five pairs of the two tabs were pushed, the oldest two were evicted, and the
\* three kept are not all the same.
C14_Witness ==
    /\ Len(ledgerLog) = 5
    /\ Len(translationContext) = 3
    /\ translationContext[1] # translationContext[3]
    /\ ledgerLog[1] # ledgerLog[3]

\* The tab whose video a pair comes from.
SpokenBy(entry) == CHOOSE tab \in Tabs : entry.original = SpokenIn(tab)

\* C15: the context belongs to one session: the context sent along with a
\* tab's request holds no pair of another tab, and a reset by one tab leaves
\* the pairs of the other tab in place.
C15_ContextPerSession ==
    [][/\ \A tab \in Tabs : \A i \in DOMAIN attached'[tab] :
                SpokenBy(attached'[tab][i]) = tab
       /\ \A tab \in Tabs : ResetContextReceived(tab) =>
                \A i \in DOMAIN translationContext :
                    SpokenBy(translationContext[i]) # tab =>
                        \E j \in DOMAIN translationContext' :
                            translationContext'[j] = translationContext[i]]_vars

\* C18: while the session is disabled it is idle: no capture graph, an empty
\* buffer, no tick armed, no open or opening transport and no overlay, whatever
\* responses, timers and transport events complete after the disable.
C18_DisabledStaysIdle ==
    ~isEnabled =>
        /\ ~capturing
        /\ audioChunks = 0
        /\ sendInterval = 0
        /\ websocket \notin {"connecting", "open"}
        /\ ~subtitleOverlay

\* C19: the answer to a request that was in flight when the session was
\* disabled changes nothing that is shown, saves no segment and starts no sync
\* call.
C19_LateAnswerHasNoEffect ==
    [][\A r \in Results, t \in ProcessingTimes, saveOk \in BOOLEAN :
            ~isEnabled /\ TranscribeAnswered(r, t, saveOk) =>
                /\ displayed' = displayed
                /\ ~lastHandled'.saved
                /\ ~lastHandled'.synced]_vars

\* C20: a change of the active video's source while capturing empties the
\* buffer, sets the period to 3000 ms and asks the background to empty the
\* context, which is empty once the background has handled that; the session
\* stays enabled with its capture graph.  A change of the source of another
\* video, or while the session is disabled, changes none of these.
C20_SourceChangeResets ==
    [][/\ \A v \in Videos : VideoSourceChanged(v) =>
            IF v = activeVideo /\ isEnabled /\ capturing
            THEN /\ audioChunks' = 0
                 /\ currentChunkDuration' = 3000
                 /\ resetsPending' = resetsPending + 1
                 /\ isEnabled' /\ capturing'
            ELSE v # activeVideo \/ ~isEnabled =>
                    UNCHANGED <<translationContext, resetsPending, audioChunks,
                                currentChunkDuration, isEnabled, capturing>>
       /\ resetsPending' < resetsPending => translationContext' = <<>>]_vars

\* The source of the active video has just changed while the session was
\* capturing with an adapted period and a context that is not empty: the period
\* is back at 3000 ms and the reset message is on its way.
C20_Witness ==
    /\ isEnabled /\ capturing
    /\ resetsPending > 0
    /\ translationContext # <<>>
    /\ audioChunks = 0
    /\ currentChunkDuration = 3000
    /\ sendInterval = 3500

\* C29: for every input sample in [-1, 1], the value stored in the capture
\* buffer is the sample times 32768 brought into -32768 .. 32767: a product
\* beyond a bound is stored as that bound and never wraps around.
C29_SamplesAreClamped ==
    (pcmOut # <<>> /\ sampleIn >= -SampleSteps /\ sampleIn <= SampleSteps) =>
        LET product == sampleIn * 32768 IN
        /\ pcmOut[1] >= -32768 /\ pcmOut[1] <= 32767
        /\ product > 32767 * SampleSteps => pcmOut[1] = 32767
        /\ product < -32768 * SampleSteps => pcmOut[1] = -32768
        /\ (product >= -32768 * SampleSteps /\ product <= 32767 * SampleSteps) =>
                /\ pcmOut[1] * SampleSteps <= product + SampleSteps - 1
                /\ pcmOut[1] * SampleSteps >= product - SampleSteps + 1

\* The sample 1.0, whose product 32768 is beyond the upper bound, was stored
\* as 32767.
C29_Witness ==
    /\ sampleIn = SampleSteps
    /\ pcmOut = <<32767>>

\* The samples of a sequence of blocks or chunks, in order.
RECURSIVE SamplesOf(_)
SamplesOf(seq) == IF seq = <<>> THEN <<>> ELSE Head(seq) \o SamplesOf(Tail(seq))

\* C30: a drain hands on the concatenation, in push order, of exactly the
\* blocks in the buffer and leaves the buffer empty; a drain of an empty buffer
\* hands on nothing and changes nothing; so the samples of the chunks handed on
\* and of the buffer are distinct samples in capture order: no block is part
\* of two chunks, and a block that was cleared is part of none.
C30_DrainIsAtomic ==
    /\ [](LET all == SamplesOf(chunksSent) \o SamplesOf(blocks) IN
            /\ \A i, j \in DOMAIN all : i < j => all[i] < all[j]
            /\ \A c \in DOMAIN chunksSent : chunksSent[c] # <<>>)
    /\ [][sendAudioChunks =>
            IF blocks = <<>>
            THEN UNCHANGED <<blocks, chunksSent>>
            ELSE /\ blocks' = <<>>
                 /\ chunksSent' = Append(chunksSent, SamplesOf(blocks))]_vars

\* Two chunks were handed on, the second of two blocks, after a block in
\* between was cleared from the buffer.
C30_Witness ==
    /\ Len(chunksSent) = 2
    /\ chunksSent[1] = BlockOf(1)
    /\ chunksSent[2] = BlockOf(3) \o BlockOf(4)
    /\ blocks = <<>>

\* C24: a transcribe message whose handler lacks its credentials (the proxied
\* handler without endpoint or secret, the direct handler without API key) is
\* answered with the credentials error before any network call is made and
\* with the context as it was.
C24_MissingCredentialsFailEarly ==
    /\ [][\A message \in Messages \cup { MessageOf(groqApiKey) } :
            TranscribeHandled(message) =>
                /\ (message.apiMode = "trial"
                        /\ (Falsy(config.apiSecret) \/ Falsy(config.backendUrl))) =>
                        /\ bgAnswer' = ErrorAnswer(MissingCredentials)
                        /\ bgFetches' = 0 /\ bgStage' = "idle"
                        /\ translationContext' = translationContext
                /\ (message.apiMode # "trial" /\ Falsy(message.groqApiKey)) =>
                        /\ bgAnswer' = ErrorAnswer(MissingApiKey)
                        /\ bgFetches' = 0 /\ bgStage' = "idle"
                        /\ translationContext' = translationContext]_vars
    /\ [](bgAnswer.reason \in { MissingCredentials, MissingApiKey } => bgFetches = 0)

\* A proxied message was refused for a missing secret although the endpoint
\* is configured, with pairs in the context.
C24_Witness ==
    /\ bgRequest.apiMode = "trial"
    /\ Falsy(config.apiSecret) /\ ~Falsy(config.backendUrl)
    /\ bgAnswer = ErrorAnswer(MissingCredentials)
    /\ bgFetches = 0
    /\ translationContext # <<>>

\* C25: in direct mode, when the transcription succeeded and the translation
\* fails, by a network failure or a response that is not 2xx, the answer is
\* still a success with the original and an empty translation.
C25_FailedTranslationStillAnswers ==
    [][\A outcome \in { "network", "non2xx" } :
            TranslationResponded(outcome) =>
                bgAnswer' = Success(SpokenIn("tabA"), "")]_vars

\* C26: the message a session dispatches carries the session's apiMode and
\* key, so that the listener runs the proxied handler exactly for a proxied
\* session, and a direct session with a key is never answered that the key is
\* missing.
C26_RequestCarriesModeAndKey ==
    [][TranscribeSent =>
            /\ bgRequest'.apiMode = apiMode
            /\ bgRequest'.groqApiKey = groqApiKey
            /\ (groqApiKey # "" => bgAnswer'.reason # MissingApiKey)]_vars

\* C21: a video added to the document of a capturing session, which then has
\* exactly one video, becomes the active video and the session ends capturing
\* with its capture graph on that video, the old graph stopped first; a video
\* added to a document that then has several, or while the session is not
\* enabled, starts no capture and leaves the active video as it was.
C21_NewVideoIsSwitchedTo ==
    /\ [][\A v \in Videos, ok \in BOOLEAN :
            (switchToVideo(v, ok) /\ capturing) =>
                /\ activeVideo' = v
                /\ capturing' /\ capturedVideo' = v
                /\ isEnabled']_vars
    /\ [][\A v \in Videos :
            VideoAdded(v) =>
                /\ activeVideo' = activeVideo
                /\ capturing' = capturing /\ capturedVideo' = capturedVideo]_vars

\* C22: a seek on the active video empties the capture buffer and clears the
\* displayed subtitle, and leaves the enabled flag, the capture graph, the
\* armed tick, the period and the context as they were.
C22_SeekClearsBufferAndSubtitle ==
    /\ [](activeVideo \in pageVideos => SeekEffect(activeVideo) = <<0, FALSE>>)
    /\ [][\A v \in Videos :
            (Seeking(v) /\ v = activeVideo) =>
                /\ audioChunks' = 0
                /\ ~displayed'
                /\ UNCHANGED <<isEnabled, capturing, capturedVideo, sendInterval,
                               orphanIntervals, currentChunkDuration, translationContext>>]_vars

\* C23: in local mode a connection that fails or is lost while the session is
\* enabled sets the reconnect timeout, and the timeout, when it fires with the
\* session still enabled, starts a connection attempt, every time; when the
\* close event of a socket or the timeout comes while the session is disabled,
\* no timeout is set and no connection attempt is started.
C23_ReconnectsWhileEnabled ==
    /\ [][((SocketClosed \/ SocketFailed) /\ isEnabled) => reconnectTimer']_vars
    /\ [][(ReconnectFired /\ isEnabled) => websocket' = "connecting"]_vars
    /\ [][(ReconnectFired /\ ~isEnabled) => websocket' = websocket]_vars
    /\ [][((ClosedSocketEvents \/ SocketClosed \/ SocketFailed) /\ ~isEnabled) =>
                /\ reconnectTimer' = reconnectTimer
                /\ websocket' # "connecting" \/ websocket = "connecting"]_vars
    /\ (reconnectTimer ~> (~reconnectTimer /\ (websocket = "connecting" \/ ~isEnabled)))

\* The timeout set by a failed connection has fired and the session is
\* connecting again.
C23_Witness ==
    /\ isEnabled
    /\ websocket = "connecting"
    /\ ~enablePending
    /\ ~reconnectTimer

\* The session has a recurring tick: the interval sendInterval refers to, or
\* one that was armed and never cleared.
TickArmed == sendInterval # 0 \/ orphanIntervals > 0

\* C27: a dispatch that fails (an error answer, among them missing
\* credentials, a rejected sendMessage, or a chunk dropped as too old) leaves
\* the session enabled as it was and its tick armed; a tick that finds blocks
\* in the buffer can fire, and it drains the buffer and hands the chunk to the
\* dispatcher, which sends it or drops it as too old.
C27_FailedDispatchKeepsTicking ==
    /\ [][\A pt \in ProcessingTimes :
            (inFlight' = inFlight - 1 /\ lastProcessingTime' = pt
                    /\ \E saveOk \in BOOLEAN : TranscribeAnswered(ErrorResult, pt, saveOk)) =>
                /\ isEnabled' = isEnabled /\ capturing' = capturing
                /\ TickArmed => TickArmed']_vars
    /\ [][TranscribeRejected =>
                /\ isEnabled' = isEnabled /\ capturing' = capturing
                /\ TickArmed => TickArmed']_vars
    /\ [][\A now \in Nows, vt \in VideoTimes :
            IntervalTick(now, vt) =>
                /\ audioChunks' = 0
                /\ isEnabled' = isEnabled /\ capturing' = capturing /\ TickArmed'
                /\ IF chunkAge(now, vt) > MAX_LAG_MS
                   THEN inFlight' = inFlight
                   ELSE inFlight' = inFlight + 1]_vars
    /\ []((TickArmed /\ audioChunks > 0) =>
                ENABLED (\E now \in Nows, vt \in VideoTimes : IntervalTick(now, vt)))

\* After an error answer that changed the period, the session is enabled and
\* capturing with blocks in the buffer, its tick armed with the new period.
C27_Witness ==
    /\ isEnabled /\ capturing
    /\ lastProcessingTime = 5000
    /\ currentChunkDuration = 3500
    /\ sendInterval = 3500
    /\ lastHandled = Handled(ErrorResult, TRUE)
    /\ audioChunks > 0
    /\ translationContext = <<>>

\* C28: an answer with text that arrives while the overlay exists is
\* displayed, whether the save to the segment cache resolves or not, and the
\* session goes on as it was: what becomes of the save and the sync reaches
\* nothing but the save and the sync.
C28_DisplayDoesNotWaitForCache ==
    [][\A r \in Results, pt \in ProcessingTimes, saveOk \in BOOLEAN :
            (subtitleOverlay /\ HasText(r) /\ inFlight' = inFlight - 1
                    /\ lastProcessingTime' = pt /\ TranscribeAnswered(r, pt, saveOk)) =>
                /\ displayed'
                /\ isEnabled' = isEnabled /\ capturing' = capturing
                /\ audioChunks' = audioChunks
                /\ TickArmed => TickArmed']_vars

\* A subtitle is displayed although the save of its segment did not resolve.
C28_Witness ==
    /\ displayed
    /\ lastHandled = [saved |-> TRUE, synced |-> FALSE]

\* C34: whatever enables, disables, video switches, source changes and period
\* adaptations came before, no interval is armed that sendInterval does not
\* refer to: at most one flush timer runs and clearing the handle stops it.
C34_OneFlushTimer == orphanIntervals = 0

\* C35: while a capture graph exists, the video it records is the active
\* video, whose currentTime tags the chunks and the saved segments.
C35_CaptureIsOnActiveVideo == capturing => capturedVideo = activeVideo

\* C36: in an enabled session with a capture graph and an armed interval, a
\* tick that finds blocks in the buffer empties it, whatever apiMode the
\* settings hold and whatever state the socket is in.
C36_EveryTickDrains ==
    /\ []((isEnabled /\ capturing /\ TickArmed /\ audioChunks > 0) =>
                ENABLED (\E now \in Nows, vt \in VideoTimes : IntervalTick(now, vt)))
    /\ [][\A now \in Nows, vt \in VideoTimes :
                IntervalTick(now, vt) => audioChunks' = 0]_vars

\* C37: in local mode no socket is connecting or open other than the one
\* websocket refers to, whatever order the enables, disables, close events and
\* reconnect timeouts come in.
C37_OneLiveConnection == superseded = 0

\* C38: in local mode a connection that opens while the session is enabled
\* leaves the session with its capture graph and its interval running, also
\* when it is the reconnect after the failed first attempt of enable (the
\* video being one whose audio can be captured).
C38_ReconnectStartsCapture ==
    [][(SocketOpened(TRUE) /\ isEnabled) => (capturing' /\ TickArmed')]_vars

\* C39: with Date.now() in milliseconds since the epoch and the chunk's
\* timestamp the playback position within the video, a chunk that is
\* dispatched in the step in which the tick drained it is not dropped by the
\* freshness guard.
C39_FreshChunkIsNotDropped == dispatch # "dropped"

\* C31: the overlay holds at most one subtitle entry; showing an entry
\* replaces the current one at once, also while it fades; the timers of an
\* entry change no other entry, also after the overlay was removed and
\* created again; and an entry that stays in the overlay is removed once its
\* display time and its fade have elapsed.
C31_OneEntryReplacedOrRemoved ==
    /\ [](\A o \in 1 .. MaxOverlays : Cardinality(ChildrenOf(containers, o)) <= 1)
    /\ [][(EntryDisplayed /\ overlayEl # 0) =>
                /\ ChildrenOf(containers', overlayEl') = {Len(containers')}
                /\ ~containers'[Len(containers')].fadeOut]_vars
    /\ [][\A c \in DOMAIN containers :
                (DisplayTimerFired(c) \/ FadeTimerFired(c)) =>
                    \A d \in DOMAIN containers \ {c} : containers'[d] = containers[d]]_vars
    /\ [][\A c \in DOMAIN containers :
                (FadeTimerFired(c) /\ c \in ChildrenOf(containers, overlayEl)) =>
                    ChildrenOf(containers', overlayEl') = {}]_vars
    /\ \A c \in 1 .. MaxEntries :
            (c \in ChildrenOf(containers, overlayEl)) ~> (c \notin ChildrenOf(containers, overlayEl))

\* An entry shown in the second overlay while the timers of an entry of the
\* first overlay have fired beside it.
C31_Witness ==
    \E c, d \in DOMAIN containers :
        /\ c < d
        /\ containers[c].timer = "done"
        /\ overlayEl = 2
        /\ d \in ChildrenOf(containers, overlayEl)
        /\ containers[d].fadeOut

\* C32: in direct mode, when a target language is requested and the context
\* is not empty, the system message of the translation request holds every
\* pair of the context as an original and a translation line, in the order of
\* the context.
C32_TranslationRequestCarriesContext ==
    [][\A outcome \in TranscriptionOutcomes :
            (/\ translationContext # <<>>
             /\ bgStage' = "translating"
             /\ TranscriptionResponded(outcome)) =>
                bgPrompt' = systemPrompt(bgRequest.targetLang, translationContext)]_vars

\* A handler returns or throws in this step, and its answer is sent.
ProcessCallEnds == bgStage # "idle" /\ bgStage' = "idle"

\* The pair of a result.
PairOf(result) == [original |-> result.original, translated |-> result.translated]

\* C33 as stated: every process call that succeeds, in either mode, appends
\* exactly one pair built from its result to the context.
C33_EverySuccessAppends ==
    [][(ProcessCallEnds /\ ~bgAnswer'.error) =>
            ledgerLog' = Append(ledgerLog, PairOf(bgAnswer'))]_vars

\* C33, amended: a process call that succeeds with both an original and a
\* translation appends exactly one pair built from its result, evicting the
\* oldest pair beyond three; a call that succeeds without a translation and a
\* call that fails leave the context as it is; and the context changes only
\* by such an append or by a reset.
C33_PairsAppendOnce ==
    [][/\ (ProcessCallEnds /\ ~bgAnswer'.error /\ bgAnswer'.original # ""
                /\ bgAnswer'.translated # "") =>
            /\ ledgerLog' = Append(ledgerLog, PairOf(bgAnswer'))
            /\ translationContext' = PushContext(translationContext, PairOf(bgAnswer'))
       /\ (ProcessCallEnds /\ (bgAnswer'.error \/ bgAnswer'.original = ""
                \/ bgAnswer'.translated = "")) =>
            UNCHANGED <<translationContext, ledgerLog>>
       /\ ~ProcessCallEnds =>
            \/ UNCHANGED <<translationContext, ledgerLog>>
            \/ translationContext' = <<>> /\ ledgerLog' = <<>>]_vars

\* A direct call without a target language has succeeded with the
\* transcription alone and left the pair of an earlier call in the context.
C33_Witness ==
    /\ bgStage = "idle"
    /\ HandlerOf(bgRequest) = "direct"
    /\ ~bgAnswer.error
    /\ bgAnswer.original # ""
    /\ bgAnswer.translated = ""
    /\ Len(translationContext) = 1
    /\ Len(ledgerLog) = 1

\* C40: after a tab's reset of the context, the context receives no pair of
\* a request of that tab that was started before the reset.
C40_NoPairFromBeforeReset ==
    [][\A tab \in Tabs :
            (tab \in staleTabs /\ bgPending[tab] # "none" /\ bgPending'[tab] = "none") =>
                UNCHANGED <<translationContext, ledgerLog>>]_vars

=============================================================================
